---------------------------- MODULE Spec2Model ----------------------------
(***************************************************************************)
(* A model of the cytokit (codex) pipeline sources:                        *)
(*   - codex/__init__.py        : the process environment registry         *)
(*   - codex/cli/__init__.py    : CLI argument resolution and run_all      *)
(*   - codex/ops/cytometry.py   : the cytometry pipeline operation         *)
(*   - codex/cytometry/cytometer.py : the cytometry engine                 *)
(* Python strings are modelled as sequences of one-character strings, so   *)
(* that len(), str(), eval() and int() act on their characters.  Python    *)
(* dicts are functions whose DOMAIN is the key set.                        *)
(***************************************************************************)
EXTENDS Integers, Sequences, FiniteSets, TLC

VARIABLES
    environ,      \* os.environ: dict name -> string
    envCall,      \* the last call made on the registry, with its argument
    linksSet,     \* what last wrote CODEX_RAW_INDEX_SYMLINKS
    symResult,    \* outcome of the last get_raw_index_symlinks()
    arg,          \* the CLI argument being resolved
    argCall,      \* the last resolver called on it, with its zero_based flag
    argRes,       \* what that call returned or raised
    configs,      \* the declared blocks run_all iterates (popped in place)
    kwargs,       \* the keyword overrides given to run_all
    runIdx,       \* the block run_all is at
    runStatus,    \* "running", "returned" or the exception run_all raised
    passed,       \* every call fn(**args) run_all made: block, op, args, own
    invoked,      \* the blocks whose operation was entered, in order
    cyto,         \* the Cytometry operation: shape, parameters, cytometer
    sessions,     \* every tf.Session created so far, "open" or "closed"
    ktf,          \* the session the Keras backend holds (0: none yet)
    cyCall,       \* the last call on the operation and how it ended
    cyRun,        \* what the last _run_2d saw and produced
    segArgs,      \* the stacks the last _run_2d handed to segment()
    modelPath,    \* what get_model_path gave the last initialize()
    bfOp,         \* the CodexFocalPlaneSelector: coordinates, classes, session
    bfTile,       \* the tile handed to its _run
    bfCall,       \* its last call and how it ended
    bfOut,        \* what its last _run returned
    qIn,          \* the arguments of a call of the engine's quantify
    qOut,         \* what that call returned or raised
    pair,         \* two Cytometry operations in one process: each one's
                  \* fields, last call and the session its initialize() made
    eng,          \* a Cytometer2D engine used directly, with what was built
    engCalls,     \* the calls made on that engine, in order, and how each ended
    u8In,         \* the image given to _to_uint8
    u8Out,        \* what _to_uint8 returned or raised
    gfIn,         \* the neighbours of an object in the adjacency graph
    gfOut,        \* what GraphFeatures.get_feature_values gave for it
    svIn,         \* the arguments of Cytometry.save
    svOut         \* the files save wrote, in order, and what it returned

envVars == <<environ, envCall, linksSet, symResult>>
argVars == <<arg, argCall, argRes>>
runVars == <<configs, kwargs, runIdx, runStatus, passed, invoked>>
cyVars == <<cyto, sessions, ktf, cyCall, cyRun, segArgs, modelPath>>
cyOpVars == <<cyto, cyCall, cyRun, segArgs, modelPath>>
bfVars == <<bfOp, bfTile, bfCall, bfOut>>
qVars == <<qIn, qOut>>
pairVars == <<pair>>
engVars == <<eng, engCalls>>
u8Vars == <<u8In, u8Out>>
gfVars == <<gfIn, gfOut>>
svVars == <<svIn, svOut>>
vars == <<envVars, argVars, runVars, cyVars, bfVars, qVars,
          pairVars, engVars, u8Vars, gfVars, svVars>>

(***************************************************************************)
(* Strings                                                                 *)
(***************************************************************************)
Digits == <<"0", "1", "2", "3", "4", "5", "6", "7", "8", "9">>

IsDigit(c) == \E d \in 1..10 : Digits[d] = c

DigitVal(c) == (CHOOSE d \in 1..10 : Digits[d] = c) - 1

\* The decimal digits of a natural number
RECURSIVE IntStr(_)
IntStr(n) ==
    IF n < 10 THEN <<Digits[n + 1]>>
    ELSE IntStr(n \div 10) \o <<Digits[(n % 10) + 1]>>

\* repr() / str() of a Python int
repr_int(n) == IF n < 0 THEN <<"-">> \o IntStr(-n) ELSE IntStr(n)

\* repr() of a Python str holding no quote or backslash
repr_str(s) == <<"'">> \o s \o <<"'">>

\* The elements of a finite set of integers, ascending
RECURSIVE SortedInts(_)
SortedInts(S) ==
    IF S = {} THEN <<>>
    ELSE LET m == CHOOSE x \in S : \A y \in S : x <= y
         IN <<m>> \o SortedInts(S \ {m})

(***************************************************************************)
(* codex/__init__.py                                                       *)
(***************************************************************************)
ENV_RAW_INDEX_SYMLINKS == "CODEX_RAW_INDEX_SYMLINKS"

\* Largest index used in a symlink mapping (two decimal digits)
MaxIndex == 10

\* Most entries of one dimension's remapping
MaxLinks == 2

IndexVals == {3, MaxIndex}

\* Dimension names, in the order a mapping lists them
DimOrder == << <<"z">>, <<"c", "y">> >>

DimNames == {DimOrder[i] : i \in 1..Len(DimOrder)}

\* {int: int} dicts of at most MaxLinks entries
InnerMaps ==
    UNION {[K -> IndexVals] : K \in {S \in SUBSET IndexVals : Cardinality(S) <= MaxLinks}}

\* dimension name -> {int: int}
Mappings == UNION {[D -> InnerMaps] : D \in SUBSET DimNames}

EmptyMap == [d \in {} |-> 0]

\* ---- str(dict): "{" + ", ".join(repr(k) + ": " + repr(v)) + "}" ----
RECURSIVE JoinItems(_)
JoinItems(items) ==
    IF Len(items) = 0 THEN <<>>
    ELSE IF Len(items) = 1 THEN items[1]
    ELSE items[1] \o <<",", " ">> \o JoinItems(Tail(items))

str_inner(m) ==
    LET ks == SortedInts(DOMAIN m)
    IN <<"{">>
       \o JoinItems([i \in 1..Len(ks) |->
                        repr_int(ks[i]) \o <<":", " ">> \o repr_int(m[ks[i]])])
       \o <<"}">>

str_links(M) ==
    LET ks == SelectSeq(DimOrder, LAMBDA d : d \in DOMAIN M)
    IN <<"{">>
       \o JoinItems([i \in 1..Len(ks) |->
                        repr_str(ks[i]) \o <<":", " ">> \o str_inner(M[ks[i]])])
       \o <<"}">>

\* ---- eval() of a literal {str: {atom: atom}} where an atom is an int ----
\* ---- literal or a quoted string; anything else is reported as an error. ----
\* A parse step returns [ok, val, pos]: the value read and the position after it.
ParseFail == [ok |-> FALSE, val |-> 0, pos |-> 0]
ParseOk(v, p) == [ok |-> TRUE, val |-> v, pos |-> p]

RECURSIVE SkipSpaces(_, _)
SkipSpaces(s, i) ==
    IF i <= Len(s) /\ s[i] = " " THEN SkipSpaces(s, i + 1) ELSE i

At(s, i, c) == i <= Len(s) /\ s[i] = c

RECURSIVE ScanDigits(_, _, _)
ScanDigits(s, i, acc) ==
    IF i <= Len(s) /\ IsDigit(s[i])
    THEN ScanDigits(s, i + 1, acc * 10 + DigitVal(s[i]))
    ELSE [val |-> acc, pos |-> i]

RECURSIVE ScanQuote(_, _)
ScanQuote(s, i) ==
    IF i > Len(s) THEN 0
    ELSE IF s[i] = "'" THEN i
    ELSE ScanQuote(s, i + 1)

RECURSIVE StripRight(_)
StripRight(s) ==
    IF Len(s) > 0 /\ s[Len(s)] = " " THEN StripRight(SubSeq(s, 1, Len(s) - 1)) ELSE s

\* int() of a str: surrounding blanks, an optional sign, then decimal digits
\* only; any other text is a ValueError (ok = FALSE)
SignedInt(negative, d) ==
    IF Len(d) > 0 /\ \A i \in 1..Len(d) : IsDigit(d[i])
    THEN [ok |-> TRUE, val |-> (IF negative THEN -1 ELSE 1) * ScanDigits(d, 1, 0).val]
    ELSE [ok |-> FALSE, val |-> 0]

IntOfStripped(t) ==
    IF Len(t) > 0 /\ t[1] \in {"-", "+"} THEN SignedInt(t[1] = "-", Tail(t))
    ELSE SignedInt(FALSE, t)

int_of_str(s) == IntOfStripped(StripRight(SubSeq(s, SkipSpaces(s, 1), Len(s))))

\* An atom, passed through int()
AtomFrom(r, p) == IF r.ok THEN ParseOk(r.val, p) ELSE ParseFail

QuotedAtom(s, i, j) ==
    IF j = 0 THEN ParseFail ELSE AtomFrom(int_of_str(SubSeq(s, i + 1, j - 1)), j + 1)

ParseIntAtom(s, i) ==
    IF At(s, i, "'") THEN QuotedAtom(s, i, ScanQuote(s, i + 1))
    ELSE IF i <= Len(s) /\ IsDigit(s[i])
              /\ ~(s[i] = "0" /\ i + 1 <= Len(s) /\ IsDigit(s[i + 1]))  \* no leading zero
    THEN AtomFrom([ok |-> TRUE, val |-> ScanDigits(s, i, 0).val], ScanDigits(s, i, 0).pos)
    ELSE ParseFail

\* d[k] = v
Put(d, k, v) == [x \in DOMAIN d \cup {k} |-> IF x = k THEN v ELSE d[x]]

\* The items of an inner dict from position i (after "{"); acc is the dict read
\* so far (a later key replaces an earlier one)
RECURSIVE ParseInnerItems(_, _, _)

InnerNext(s, acc, e) ==
    IF At(s, e, "}") THEN ParseOk(acc, e + 1)
    ELSE IF At(s, e, ",") THEN ParseInnerItems(s, e + 1, acc)
    ELSE ParseFail

InnerAfterVal(s, key, v, acc) ==
    IF ~v.ok THEN ParseFail
    ELSE InnerNext(s, Put(acc, key, v.val), SkipSpaces(s, v.pos))

InnerAfterColon(s, key, c, acc) ==
    IF ~At(s, c, ":") THEN ParseFail
    ELSE InnerAfterVal(s, key, ParseIntAtom(s, SkipSpaces(s, c + 1)), acc)

InnerAfterKey(s, k, acc) ==
    IF ~k.ok THEN ParseFail
    ELSE InnerAfterColon(s, k.val, SkipSpaces(s, k.pos), acc)

ParseInnerItems(s, i, acc) == InnerAfterKey(s, ParseIntAtom(s, SkipSpaces(s, i)), acc)

InnerBody(s, j) ==
    IF At(s, j, "}") THEN ParseOk(EmptyMap, j + 1) ELSE ParseInnerItems(s, j, EmptyMap)

ParseInner(s, i) ==
    IF ~At(s, i, "{") THEN ParseFail ELSE InnerBody(s, SkipSpaces(s, i + 1))

RECURSIVE ParseOuterItems(_, _, _)

OuterNext(s, acc, e) ==
    IF At(s, e, "}") THEN ParseOk(acc, e + 1)
    ELSE IF At(s, e, ",") THEN ParseOuterItems(s, e + 1, acc)
    ELSE ParseFail

OuterAfterVal(s, name, v, acc) ==
    IF ~v.ok THEN ParseFail
    ELSE OuterNext(s, Put(acc, name, v.val), SkipSpaces(s, v.pos))

OuterAfterColon(s, name, c, acc) ==
    IF ~At(s, c, ":") THEN ParseFail
    ELSE OuterAfterVal(s, name, ParseInner(s, SkipSpaces(s, c + 1)), acc)

OuterAfterKey(s, a, q, acc) ==
    IF q = 0 THEN ParseFail
    ELSE OuterAfterColon(s, SubSeq(s, a + 1, q - 1), SkipSpaces(s, q + 1), acc)

OuterKey(s, a, acc) ==
    IF ~At(s, a, "'") THEN ParseFail ELSE OuterAfterKey(s, a, ScanQuote(s, a + 1), acc)

ParseOuterItems(s, i, acc) == OuterKey(s, SkipSpaces(s, i), acc)

OuterBody(s, j) ==
    IF At(s, j, "}") THEN ParseOk(EmptyMap, j + 1) ELSE ParseOuterItems(s, j, EmptyMap)

ParseOuter(s, i) ==
    IF ~At(s, i, "{") THEN ParseFail ELSE OuterBody(s, SkipSpaces(s, i + 1))

EvalResult(s, r) ==
    IF r.ok /\ SkipSpaces(s, r.pos) = Len(s) + 1
    THEN [kind |-> "ok", val |-> r.val]
    ELSE [kind |-> "error", val |-> EmptyMap]

\* eval(s) followed by the int() loops of get_raw_index_symlinks
eval_links(s) == EvalResult(s, ParseOuter(s, SkipSpaces(s, 1)))

\* ---- the registry's operations, as functions of os.environ ----
EmptyEnv == [k \in {} |-> <<>>]

\* A variant that assigns every entry of env
register_environment_overwrite(E, env) ==
    [k \in DOMAIN E \cup DOMAIN env |-> IF k \in DOMAIN env THEN env[k] ELSE E[k]]

\* for k, v in env.items(): if k not in os.environ: os.environ[k] = v
register_environment(E, env) ==
    [k \in DOMAIN E \cup DOMAIN env |-> IF k \in DOMAIN E THEN E[k] ELSE env[k]]

\* An argument of set_raw_index_symlinks: None, a mapping or a str
NoneLinks == [kind |-> "none", map |-> EmptyMap, str |-> <<>>]
MapLinks(M) == [kind |-> "mapping", map |-> M, str |-> <<>>]
StrLinks(s) == [kind |-> "str", map |-> EmptyMap, str |-> s]

Setenv(E, k, v) == [x \in DOMAIN E \cup {k} |-> IF x = k THEN v ELSE E[x]]

\* A variant that stores str(links) whatever links is
set_raw_index_symlinks_nodefault(E, links) ==
    Setenv(E, ENV_RAW_INDEX_SYMLINKS,
           IF links.kind = "str" THEN links.str
           ELSE IF links.kind = "none" THEN <<"N", "o", "n", "e">>
           ELSE str_links(links.map))

\* os.environ[VAR] = links if isinstance(links, str) else str(links or '{}')
set_raw_index_symlinks(E, links) ==
    Setenv(E, ENV_RAW_INDEX_SYMLINKS,
           IF links.kind = "str" THEN links.str
           ELSE IF links.kind = "none" \/ links.map = EmptyMap THEN <<"{", "}">>
           ELSE str_links(links.map))

get_raw_index_symlinks(E) ==
    IF ENV_RAW_INDEX_SYMLINKS \notin DOMAIN E \/ E[ENV_RAW_INDEX_SYMLINKS] = <<>>
    THEN [kind |-> "ok", val |-> EmptyMap]
    ELSE eval_links(E[ENV_RAW_INDEX_SYMLINKS])

\* ---- inputs of the registry's calls ----
OldVal == <<"o", "l", "d">>
NewVal == <<"n", "e", "w">>

\* str values given for CODEX_RAW_INDEX_SYMLINKS: empty, an empty dict, a dict
\* of stringified integers, and a string that is no dict
LinkStrings ==
    { <<>>,
      <<"{", "}">>,
      <<"{", "'", "z", "'", ":", " ", "{", "'", "1", "'", ":", " ", "'", "2", "'", "}", "}">>,
      <<"x">> }

PartialFns(K, V) == UNION {[D -> V] : D \in SUBSET K}

\* The mappings a configuration registers
RegEnvs ==
    {[k \in DOMAIN a \cup DOMAIN b \cup DOMAIN c |->
         IF k \in DOMAIN a THEN a[k] ELSE IF k \in DOMAIN b THEN b[k] ELSE c[k]] :
        a \in PartialFns({"X"}, {OldVal, NewVal}),
        b \in PartialFns({"Y"}, {NewVal}),
        c \in PartialFns({ENV_RAW_INDEX_SYMLINKS}, {<<"{", "}">>})}

NoResult == [kind |-> "none", val |-> EmptyMap]

EnvStart ==
    /\ environ \in PartialFns({"X"}, {OldVal})
    /\ envCall = [op |-> "start", env |-> EmptyEnv]
    /\ linksSet = [kind |-> "never", val |-> EmptyMap]
    /\ symResult = NoResult

RegisterEnvironment ==
    \E env \in RegEnvs :
        /\ environ' = register_environment(environ, env)
        /\ envCall' = [op |-> "register_environment", env |-> env]
        /\ linksSet' = IF ENV_RAW_INDEX_SYMLINKS \in DOMAIN environ' \ DOMAIN environ
                       THEN [kind |-> "registered", val |-> EmptyMap]
                       ELSE linksSet
        /\ symResult' = NoResult

SetRawIndexSymlinks ==
    \E links \in {NoneLinks} \cup {MapLinks(M) : M \in Mappings}
                   \cup {StrLinks(s) : s \in LinkStrings} :
        /\ environ' = set_raw_index_symlinks(environ, links)
        /\ envCall' = [op |-> "set_raw_index_symlinks", env |-> EmptyEnv]
        /\ linksSet' = [kind |-> links.kind, val |-> links.map]
        /\ symResult' = NoResult

GetRawIndexSymlinks ==
    /\ symResult' = get_raw_index_symlinks(environ)
    /\ envCall' = [op |-> "get_raw_index_symlinks", env |-> EmptyEnv]
    /\ UNCHANGED <<environ, linksSet>>


\* C1: register_environment(env) is set-if-absent: an entry the environment
\* already holds keeps its value, an entry it lacks is created with env's
\* value, and names outside env are left as they were.
RegisterSetIfAbsent ==
    [][envCall'.op = "register_environment" =>
         \A k \in DOMAIN environ \cup DOMAIN environ' \cup DOMAIN envCall'.env :
            /\ k \in DOMAIN environ =>
                  k \in DOMAIN environ' /\ environ'[k] = environ[k]
            /\ (k \notin DOMAIN environ /\ k \in DOMAIN envCall'.env) =>
                  k \in DOMAIN environ' /\ environ'[k] = envCall'.env[k]
            /\ (k \notin DOMAIN environ /\ k \notin DOMAIN envCall'.env) =>
                  k \notin DOMAIN environ']_envVars

\* X was set to old, {X: new, Y: new} was registered: X is old, Y is new
RegisterKeepsOldAddsNew ==
    /\ envCall.op = "register_environment"
    /\ {"X", "Y"} \subseteq DOMAIN envCall.env
    /\ envCall.env["X"] = NewVal /\ envCall.env["Y"] = NewVal
    /\ {"X", "Y"} \subseteq DOMAIN environ
    /\ environ["X"] = OldVal /\ environ["Y"] = NewVal

\* C2: get_raw_index_symlinks() after set_raw_index_symlinks(M) returns M
\* (integer keys and values), the empty mapping for an empty M or None, and
\* the empty mapping when the variable was never set.
SymlinkRoundTrip ==
    envCall.op = "get_raw_index_symlinks" =>
        /\ linksSet.kind \in {"mapping", "none"} =>
              /\ symResult = [kind |-> "ok", val |-> linksSet.val]
              /\ \A d \in DOMAIN symResult.val :
                    \A i \in DOMAIN symResult.val[d] :
                        i \in Nat /\ symResult.val[d][i] \in Nat
        /\ linksSet.kind = "never" => symResult = [kind |-> "ok", val |-> EmptyMap]

\* A two-dimension mapping with a two-digit index came back from the variable
SymlinkRoundTripReached ==
    /\ envCall.op = "get_raw_index_symlinks"
    /\ linksSet.kind = "mapping"
    /\ DOMAIN linksSet.val = DimNames
    /\ \E d \in DimNames :
          /\ Cardinality(DOMAIN linksSet.val[d]) = MaxLinks
          /\ MaxIndex \in DOMAIN linksSet.val[d]
          /\ linksSet.val[d][MaxIndex] = 3
    /\ symResult.kind = "ok"
    /\ symResult.val = linksSet.val


(***************************************************************************)
(* codex/cli/__init__.py: resolve_int_list_arg, resolve_index_list_arg     *)
(***************************************************************************)
\* Largest magnitude of an integer given in an argument
MaxArg == 3

\* Longest list given as an argument
MaxList == 2

ArgInts == (0 - MaxArg)..MaxArg

\* An element of a tuple or list: an int or a str
IntAtom(n) == [t |-> "int", n |-> n, s |-> <<>>]
StrAtom(s) == [t |-> "str", n |-> 0, s |-> s]

\* int(v) of an element: [ok, val]
int_of_atom(a) == IF a.t = "int" THEN [ok |-> TRUE, val |-> a.n] ELSE int_of_str(a.s)

\* Strings given as arguments or elements: numerals, and text int() rejects
ArgStrings == {<<"2">>, <<"1", "0">>, <<"-", "1">>, <<" ", "3">>, <<"a">>, <<>>, <<"1", ".", "5">>}

\* An argument: None, an int, a str, a tuple, a list, or a value of another
\* type (a float, a dict)
NoneArg == [kind |-> "none", n |-> 0, s |-> <<>>, items |-> <<>>]
IntArg(n) == [kind |-> "int", n |-> n, s |-> <<>>, items |-> <<>>]
StrArg(s) == [kind |-> "str", n |-> 0, s |-> s, items |-> <<>>]
TupleArg(xs) == [kind |-> "tuple", n |-> 0, s |-> <<>>, items |-> xs]
ListArg(xs) == [kind |-> "list", n |-> 0, s |-> <<>>, items |-> xs]
OtherArg(k) == [kind |-> k, n |-> 0, s |-> <<>>, items |-> <<>>]

IntSeqs(lens, vals) == UNION {[1..n -> {IntAtom(v) : v \in vals}] : n \in lens}

Args ==
    {NoneArg, OtherArg("float"), OtherArg("dict")}
    \cup {IntArg(n) : n \in ArgInts}
    \cup {StrArg(s) : s \in ArgStrings}
    \cup {TupleArg(xs) : xs \in IntSeqs({2, 3}, ArgInts)}
    \cup {TupleArg(xs) : xs \in IntSeqs({0, 1, 4}, {1, 2})}
    \cup {TupleArg(<<StrAtom(<<"2">>), IntAtom(3)>>),
          TupleArg(<<IntAtom(1), StrAtom(<<"a">>)>>),
          TupleArg(<<StrAtom(<<"a">>), IntAtom(1), IntAtom(1), IntAtom(1)>>)}
    \cup {ListArg(xs) : xs \in IntSeqs(0..MaxList, ArgInts)}
    \cup {ListArg(<<StrAtom(s)>>) : s \in ArgStrings}

\* What a resolver returns (None or a list) or raises
NoneRes == [kind |-> "none", items |-> <<>>]
ListRes(xs) == [kind |-> "list", items |-> xs]
Raised(e) == [kind |-> e, items |-> <<>>]

\* list(range(start, stop, step)) for a nonzero step
RECURSIVE py_range(_, _, _)
py_range(start, stop, step) ==
    IF (step > 0 /\ start < stop) \/ (step < 0 /\ start > stop)
    THEN <<start>> \o py_range(start + step, stop, step)
    ELSE <<>>

\* [int(v) for v in xs]: the list, or the ValueError of the first bad element
int_each(xs) ==
    IF \A i \in 1..Len(xs) : int_of_atom(xs[i]).ok
    THEN ListRes([i \in 1..Len(xs) |-> int_of_atom(xs[i]).val])
    ELSE Raised("ValueError")

\* A variant that rejects only tuples too short to hold start and stop
bad_tuple_len_short(n) == n < 2

\* len(arg) not in [2, 3]
bad_tuple_len(n) == n \notin {2, 3}

resolve_int_list_arg(a) ==
    IF a.kind = "none" THEN NoneRes
    ELSE IF a.kind = "int" THEN ListRes(<<a.n>>)
    ELSE IF a.kind = "str"
    THEN LET r == int_of_str(a.s)
         IN IF r.ok THEN ListRes(<<r.val>>) ELSE Raised("ValueError")
    ELSE IF a.kind = "tuple"
    THEN IF bad_tuple_len(Len(a.items)) THEN Raised("ValueError")
         ELSE LET vals == int_each(a.items)
              IN IF vals.kind # "list" THEN vals
                 ELSE LET step == IF Len(vals.items) < 3 THEN 1 ELSE vals.items[3]
                      IN IF step = 0 THEN Raised("ValueError")  \* range() arg 3 must not be zero
                         ELSE ListRes(py_range(vals.items[1], vals.items[2] + 1, step))
    ELSE IF a.kind = "list" THEN int_each(a.items)
    ELSE Raised("ValueError")

\* A variant that takes the indexes for zero-based ones
index_too_small_zero(i) == i < 0

\* i < 1
index_too_small(i) == i < 1

resolve_index_list_arg(a, zero_based) ==
    LET indexes == resolve_int_list_arg(a)
    IN IF indexes.kind # "list" THEN indexes
       ELSE IF \E i \in 1..Len(indexes.items) : index_too_small(indexes.items[i])
       THEN Raised("ValueError")
       ELSE IF zero_based
       THEN ListRes([i \in 1..Len(indexes.items) |-> indexes.items[i] - 1])
       ELSE indexes

ArgStart ==
    /\ arg \in Args
    /\ argCall = [op |-> "start", zero_based |-> FALSE]
    /\ argRes = NoneRes

ResolveIntListArg ==
    /\ argRes' = resolve_int_list_arg(arg)
    /\ argCall' = [op |-> "resolve_int_list_arg", zero_based |-> FALSE]
    /\ UNCHANGED arg

ResolveIndexListArg ==
    \E zero_based \in BOOLEAN :
        /\ argRes' = resolve_index_list_arg(arg, zero_based)
        /\ argCall' = [op |-> "resolve_index_list_arg", zero_based |-> zero_based]
        /\ UNCHANGED arg

\* The values start + k*step (k >= 0) from start up to and including stop
InclusiveRange(start, stop, step) ==
    LET far == IF stop >= start THEN stop - start ELSE start - stop
        K == {k \in 0..far : IF step > 0 THEN start + k * step <= stop
                                          ELSE start + k * step >= stop}
    IN [i \in 1..Cardinality(K) |-> start + (i - 1) * step]

IsIntTuple(a) ==
    /\ a.kind = "tuple"
    /\ Len(a.items) \in {2, 3}
    /\ \A i \in 1..Len(a.items) : a.items[i].t = "int"

TupleStep(a) == IF Len(a.items) = 3 THEN a.items[3].n ELSE 1

\* C3: a tuple (start, stop) or (start, stop, step) resolves to the inclusive
\* range from start to stop, for every start, stop and every nonzero step.
TupleIsInclusiveRange ==
    (argCall.op = "resolve_int_list_arg" /\ IsIntTuple(arg) /\ TupleStep(arg) # 0) =>
        argRes = ListRes(InclusiveRange(arg.items[1].n, arg.items[2].n, TupleStep(arg)))

\* C4: None resolves to None, an int or a numeral to a one-element list, a
\* list to its element-wise integers; every other shape, a tuple of a length
\* other than 2 or 3 included, raises ValueError and returns no list.
IntListArgShapes ==
    argCall.op = "resolve_int_list_arg" =>
        /\ arg.kind = "none" => argRes = NoneRes
        /\ arg.kind = "int" => argRes = ListRes(<<arg.n>>)
        /\ arg.kind = "str" =>
              /\ \A n \in (0 - 20)..20 : arg.s = repr_int(n) => argRes = ListRes(<<n>>)
              /\ (\A n \in (0 - 20)..20 : SubSeq(arg.s, SkipSpaces(arg.s, 1), Len(arg.s)) # repr_int(n))
                    => argRes = Raised("ValueError")
        /\ (arg.kind = "list" /\ \A i \in 1..Len(arg.items) : arg.items[i].t = "int") =>
              argRes = ListRes([i \in 1..Len(arg.items) |-> arg.items[i].n])
        /\ (arg.kind = "tuple" /\ Len(arg.items) \notin {2, 3}) =>
              argRes = Raised("ValueError")
        /\ arg.kind \notin {"none", "int", "str", "tuple", "list"} =>
              argRes = Raised("ValueError")

\* A 4-tuple was refused
FourTupleRefused ==
    /\ argCall.op = "resolve_int_list_arg"
    /\ arg.kind = "tuple" /\ Len(arg.items) = 4
    /\ \A i \in 1..4 : arg.items[i].t = "int"
    /\ argRes = Raised("ValueError")

\* C5: resolve_index_list_arg raises ValueError when a resolved value is < 1;
\* otherwise it returns the resolved list as it is, or with 1 subtracted from
\* every value when zero_based; None stays None.
IndexListArgOneBased ==
    argCall.op = "resolve_index_list_arg" =>
        LET r == resolve_int_list_arg(arg)
        IN /\ r.kind = "none" => argRes = NoneRes
           /\ (r.kind = "list" /\ \E i \in 1..Len(r.items) : r.items[i] < 1) =>
                 argRes = Raised("ValueError")
           /\ (r.kind = "list" /\ \A i \in 1..Len(r.items) : r.items[i] >= 1) =>
                 /\ argRes.kind = "list"
                 /\ Len(argRes.items) = Len(r.items)
                 /\ \A i \in 1..Len(r.items) :
                       /\ argRes.items[i] = IF argCall.zero_based THEN r.items[i] - 1
                                            ELSE r.items[i]
                       /\ argCall.zero_based => argRes.items[i] >= 0

\* [1, 2, 3] became [0, 1, 2]
IndexListShifted ==
    /\ argCall.op = "resolve_index_list_arg" /\ argCall.zero_based
    /\ arg.kind = "tuple"
    /\ arg.items = <<IntAtom(1), IntAtom(3)>>
    /\ argRes = ListRes(<<0, 1, 2>>)

(***************************************************************************)
(* codex/cli/__init__.py: DataCLI.run_all                                  *)
(***************************************************************************)
\* Most blocks in the declared list
MaxBlocks == 2

\* The members of the CLI instance.  config and data_dir are the attributes
\* DataCLI.__init__ assigns; the operations are methods of the subclass in
\* use, given by the parameters they declare and the local variables their
\* bodies use: extract(self, p, q) with a local t, montage(self, q), and
\* analyze(self, q, **extra) with a local t.
Operations == {"extract", "montage", "analyze"}
Attributes == {"config", "data_dir"}

Declared(op) == IF op = "extract" THEN {"p", "q"} ELSE {"q"}
VarKeyword(op) == IF op = "analyze" THEN {"extra"} ELSE {}
Locals(op) == IF op = "montage" THEN {} ELSE {"t"}

\* fn.__code__.co_varnames: the names of the arguments and of the local variables
co_varnames(op) == {"self"} \cup Declared(op) \cup VarKeyword(op) \cup Locals(op)

\* hasattr(self, op)
hasattr(name) == name \in Operations \cup Attributes

\* A block: its enabled entry ("absent", "True" or "False") and its other
\* keys, each with the parameters it gives
Block(flag, ops) == [enabled |-> flag, ops |-> ops]

EmptyArgs == [k \in {} |-> ""]

BlockParams == {EmptyArgs, [k \in {"q"} |-> "configured"]}

Blocks ==
    {Block(f, o) :
        f \in {"absent", "True", "False"},
        o \in {EmptyArgs}
              \cup UNION {[{k} -> BlockParams] : k \in Operations}
              \cup {[k \in {n} |-> EmptyArgs] : n \in {"config", "unknown"}}
              \cup {[k \in Operations |-> EmptyArgs]}}

Overrides == PartialFns({"q", "t"}, {"override"})

\* 'enabled' in config and not config['enabled']
is_disabled(c) == c.enabled = "False"

\* {**a, **b}
Merge(a, b) == [k \in DOMAIN a \cup DOMAIN b |-> IF k \in DOMAIN b THEN b[k] ELSE a[k]]

\* {k: v for k, v in kwargs.items() if k in names}
Restrict(d, names) == [k \in DOMAIN d \cap names |-> d[k]]

\* The call fn(**args) of an operation: entered when every keyword is a
\* declared parameter or the operation takes **extra, a TypeError otherwise
Binds(op, args) == VarKeyword(op) # {} \/ DOMAIN args \subseteq Declared(op)

Call(i, op, args, own) == [block |-> i, op |-> op, args |-> args, own |-> own]

\* The only key of a one-key block
OnlyKey(c) == CHOOSE k \in DOMAIN c.ops : TRUE

RunStart ==
    /\ configs \in UNION {[1..n -> Blocks] : n \in 0..MaxBlocks}
    /\ kwargs \in Overrides
    /\ runIdx = 1
    /\ runStatus = "running"
    /\ passed = <<>>
    /\ invoked = <<>>

\* An all-or-nothing run_all, which run_all is not: a failure that takes the
\* calls already made back
RaiseUndoingCalls(e) ==
    /\ runStatus' = e
    /\ invoked' = <<>>
    /\ UNCHANGED <<runIdx, passed>>

\* raise: the loop stops where it is, the calls made before stay made
Raise(e) ==
    /\ runStatus' = e
    /\ UNCHANGED <<runIdx, passed, invoked>>

\* The call of a member that is an operation
CallOperation(op, own) ==
    LET args == Merge(own, Restrict(kwargs, co_varnames(op)))
    IN /\ passed' = Append(passed, Call(runIdx, op, args, own))
       /\ IF Binds(op, args)
          THEN /\ invoked' = Append(invoked, Call(runIdx, op, args, own))
               /\ runIdx' = runIdx + 1
               /\ UNCHANGED runStatus
          ELSE /\ runStatus' = "TypeError"
               /\ UNCHANGED <<runIdx, invoked>>

\* The lines of the loop body after the enabled entry was popped
Dispatch(c) ==
    IF Cardinality(DOMAIN c.ops) # 1 THEN Raise("ValueError")
    ELSE IF ~hasattr(OnlyKey(c)) THEN Raise("ValueError")
    ELSE IF OnlyKey(c) \in Operations THEN CallOperation(OnlyKey(c), c.ops[OnlyKey(c)])
    \* an attribute that is no function has no __code__ (read when kwargs has
    \* an item) and cannot be called
    ELSE IF DOMAIN kwargs # {} THEN Raise("AttributeError")
    ELSE Raise("TypeError")

\* One pass of the loop of run_all
RunAllBlock ==
    /\ runStatus = "running"
    /\ runIdx <= Len(configs)
    /\ IF is_disabled(configs[runIdx])
       THEN /\ runIdx' = runIdx + 1
            /\ UNCHANGED <<configs, runStatus, passed, invoked>>
       ELSE /\ configs' = [configs EXCEPT ![runIdx].enabled = "absent"]
            /\ Dispatch(configs[runIdx])
    /\ UNCHANGED kwargs

\* The loop ends and run_all returns
RunAllReturn ==
    /\ runStatus = "running"
    /\ runIdx > Len(configs)
    /\ runStatus' = "returned"
    /\ UNCHANGED <<configs, kwargs, runIdx, passed, invoked>>

\* A block run_all can run: a disabled one, or one with a single key that
\* names an operation and gives it parameters the operation declares
ValidBlock(c) ==
    \/ is_disabled(c)
    \/ /\ Cardinality(DOMAIN c.ops) = 1
       /\ OnlyKey(c) \in Operations
       /\ DOMAIN c.ops[OnlyKey(c)] \subseteq Declared(OnlyKey(c))

\* A non-disabled block without exactly one key, or whose key names no
\* callable member
BadBlock(c) ==
    /\ ~is_disabled(c)
    /\ \/ Cardinality(DOMAIN c.ops) # 1
       \/ OnlyKey(c) \notin Operations

EnabledBlocks == {i \in 1..Len(configs) : ~is_disabled(configs[i])}

\* The run is over block i: it went past it or stopped at it
Handled(i) == i < runIdx \/ (i = runIdx /\ runStatus \notin {"running", "returned"})

\* C6: once run_all is over a list of valid blocks, it has returned and has
\* entered the operations of exactly the blocks not marked enabled = false,
\* each once and in the declared order.
RunAllInvokesEnabledInOrder ==
    (runStatus # "running" /\ \A i \in 1..Len(configs) : ValidBlock(configs[i]))
        => /\ runStatus = "returned"
           /\ [k \in 1..Len(invoked) |-> invoked[k].block] = SortedInts(EnabledBlocks)
           /\ \A k \in 1..Len(invoked) :
                  invoked[k].op = OnlyKey(configs[invoked[k].block])

\* C7: a non-disabled block without exactly one operation key, or whose key
\* names no callable member, makes run_all raise ValueError at that block
\* without calling anything for it.
RunAllRefusesBadBlock ==
    \A i \in 1..Len(configs) :
        (BadBlock(configs[i]) /\ Handled(i))
            => /\ runStatus = "ValueError"
               /\ runIdx = i
               /\ \A k \in 1..Len(passed) : passed[k].block # i

\* C8: every call run_all makes passes the block's own parameters overlaid
\* with exactly the overrides whose names are declared parameters of the
\* operation.
RunAllPassesDeclaredOverrides ==
    \A k \in 1..Len(passed) :
        passed[k].args = Merge(passed[k].own, Restrict(kwargs, Declared(passed[k].op)))

\* The position of the first block that is not disabled and has not exactly
\* one key or names no operation; 0 when there is none
FirstBadBlock ==
    IF \E i \in 1..Len(configs) : BadBlock(configs[i])
    THEN CHOOSE i \in 1..Len(configs) :
             /\ BadBlock(configs[i])
             /\ \A j \in 1..(i - 1) : ~BadBlock(configs[j])
    ELSE 0

\* run_all has raised at block k
FailedAt(k) == runIdx = k /\ runStatus \notin {"running", "returned"}

\* C25: run_all is not atomic.  With the first invalid non-disabled block at
\* position k, no block at or after k is ever invoked, and when the failure
\* of block k is raised every non-disabled block before k has been invoked
\* exactly once, in the declared order.
RunAllStopsAtFirstBadBlock ==
    FirstBadBlock # 0 =>
        /\ \A n \in 1..Len(invoked) : invoked[n].block < FirstBadBlock
        /\ FailedAt(FirstBadBlock) =>
               [n \in 1..Len(invoked) |-> invoked[n].block]
                   = SortedInts({i \in EnabledBlocks : i < FirstBadBlock})

\* Reached: run_all has raised at an invalid second block after the
\* operation of the first block was invoked
FailureAfterEarlierCall ==
    /\ FirstBadBlock = 2
    /\ FailedAt(2)
    /\ Len(invoked) = 1
    /\ invoked[1].block = 1

(***************************************************************************)
(* codex/ops/cytometry.py and the engine of codex/cytometry/cytometer.py   *)
(***************************************************************************)
ENV_CYTOMETRY_2D_MODEL_PATH == "CODEX_CYTOMETRY_2D_MODEL_PATH"
ENV_DATA_DIR == "CODEX_DATA_DIR"

\* np.iinfo(np.uint16).max
UINT16_MAX == 65535

\* Most tf.Session objects created in one run
MaxSessions == 2

\* Widths of the tiles (tiles are one row high and one plane deep)
TileWidths == {1, 2}

\* osp.join of two parts
Join(a, b) ==
    IF a = <<>> THEN b
    ELSE IF a[Len(a)] = "/" THEN a \o b
    ELSE a \o <<"/">> \o b

\* 'modeling', 'cytopy', 'models', 'nuclei', 'v0.3', 'nuclei_model.h5'
DefaultModelFile ==
    Join(Join(Join(Join(Join(<<"m", "o", "d", "e", "l", "i", "n", "g">>,
         <<"c", "y", "t", "o", "p", "y">>),
         <<"m", "o", "d", "e", "l", "s">>),
         <<"n", "u", "c", "l", "e", "i">>),
         <<"v", "0", ".", "3">>),
         <<"n", "u", "c", "l", "e", "i", "_", "m", "o", "d", "e", "l", ".", "h", "5">>)

PathOk(p) == [kind |-> "ok", path |-> p]
PathKeyError == [kind |-> "KeyError", path |-> <<>>]

\* os.getenv(name, default): the default is computed before the lookup
get_model_path(E) ==
    IF ENV_DATA_DIR \notin DOMAIN E THEN PathKeyError
    ELSE IF ENV_CYTOMETRY_2D_MODEL_PATH \in DOMAIN E
         THEN PathOk(E[ENV_CYTOMETRY_2D_MODEL_PATH])
    ELSE PathOk(Join(E[ENV_DATA_DIR], DefaultModelFile))

\* Elements of a shape: an int, or a character when a str is taken for a tuple
Dim(n) == [kind |-> "int", n |-> n, c |-> ""]
Chr(c) == [kind |-> "str", n |-> 0, c |-> c]
HWC(h, w) == <<Dim(h), Dim(w), Dim(1)>>
TupleOf(p) == [i \in 1..Len(p) |-> Chr(p[i])]

\* The weights file Cytometer2D._get_weights_path downloads
CachedWeights == <<"u", "n", "e", "t">>

NoModel == [built |-> FALSE, input_shape |-> <<>>, weights |-> <<>>]
NoEngine ==
    [made |-> FALSE, input_shape |-> <<>>, has_target |-> FALSE, target_shape |-> <<>>,
     has_weights |-> FALSE, weights_path |-> <<>>, resize |-> FALSE,
     initialized |-> FALSE, model |-> NoModel]

\* KerasCytometer2D.__init__(input_shape, target_shape=None, weights_path=None)
KerasCytometer2D(input_shape, has_target, target, has_weights, weights) ==
    [made |-> TRUE, input_shape |-> input_shape,
     has_target |-> has_target, target_shape |-> target,
     has_weights |-> has_weights, weights_path |-> weights,
     resize |-> has_target /\ target # SubSeq(input_shape, 1, 2),
     initialized |-> FALSE, model |-> NoModel]

\* The checks of KerasCytometer2D.__init__
EngineRefused(input_shape, has_target, target) ==
    Len(input_shape) # 3 \/ (has_target /\ Len(target) # 2)

\* An initialize() that builds and loads but leaves the flag as it was
EngineInitializeUnflagged(e) ==
    [e EXCEPT !.model = [built |-> TRUE,
                         input_shape |-> IF e.resize
                                         THEN e.target_shape \o <<e.input_shape[3]>>
                                         ELSE e.input_shape,
                         weights |-> IF e.has_weights THEN e.weights_path
                                     ELSE CachedWeights]]

\* KerasCytometer2D.initialize
EngineInitialize(e) ==
    [e EXCEPT !.initialized = TRUE,
              !.model = [built |-> TRUE,
                         input_shape |-> IF e.resize
                                         THEN e.target_shape \o <<e.input_shape[3]>>
                                         ELSE e.input_shape,
                         weights |-> IF e.has_weights THEN e.weights_path
                                     ELSE CachedWeights]]

\* ---- segmentation volumes: one plane, a cell and a nucleus channel ----
LabelVals == {0, 1, UINT16_MAX, UINT16_MAX + 1}

\* A variant that numbers the nuclei on their own
nucleus_seg_relabelled(img_cell_seg, img_bin_nuci) ==
    [i \in DOMAIN img_cell_seg |->
        IF img_cell_seg[i] > 0 /\ img_bin_nuci[i] THEN 1 ELSE 0]

\* img_nuc_seg = ((img_cell_seg > 0) & img_bin_nuci) * img_cell_seg
nucleus_seg(img_cell_seg, img_bin_nuci) ==
    [i \in DOMAIN img_cell_seg |->
        IF img_cell_seg[i] > 0 /\ img_bin_nuci[i] THEN img_cell_seg[i] ELSE 0]

\* What segment() returns for a tile w wide: the cell labels the watershed
\* gives, and the nucleus labels cut from them by the nucleus mask
Volumes(w) ==
    {[cell |-> c, nucleus |-> nucleus_seg(c, m)] :
        c \in [1..w -> LabelVals], m \in [1..w -> BOOLEAN]}

NoVolume == [cell |-> <<>>, nucleus |-> <<>>]
NoLabelTile == [segmentation |-> NoVolume, boundary |-> NoVolume]

Values(v) == {v.cell[i] : i \in 1..Len(v.cell)} \cup {v.nucleus[i] : i \in 1..Len(v.nucleus)}
MaxOf(S) == CHOOSE m \in S : \A x \in S : x <= m
MinOf(S) == CHOOSE m \in S : \A x \in S : m <= x

\* measure.regionprops of a plane: one region per positive label
Regions(plane) == {plane[i] : i \in 1..Len(plane)} \ {0}

\* Cytometer2D.quantify up to its first object: the channel names given must
\* match the tile, both channels must have as many regions, the first pair
\* must share its label, and BasicCellFeatures reads props.cell.nucleus
quantify_first(cells, nuclei) ==
    IF Cardinality(cells) # Cardinality(nuclei) THEN "ValueError"
    ELSE IF cells = {} THEN "ok"
    ELSE IF MinOf(cells) # MinOf(nuclei) THEN "ValueError"
    ELSE "AttributeError"

quantify(names_match, img_seg) ==
    IF ~names_match THEN "ValueError"
    ELSE quantify_first(Regions(img_seg.cell), Regions(img_seg.nucleus))

\* segmentation.find_boundaries(plane, mode='inner', background=bg) * plane
InnerBoundary(plane, bg) ==
    [i \in 1..Len(plane) |->
        IF plane[i] # bg /\ \E j \in {i - 1, i + 1} \cap (1..Len(plane)) : plane[j] # plane[i]
        THEN plane[i] ELSE 0]

\* _find_boundaries(img_seg[:, i], as_binary=False) for both channels
find_boundaries(img_seg) ==
    [cell |-> InnerBoundary(img_seg.cell, MinOf({img_seg.cell[i] : i \in 1..Len(img_seg.cell)})),
     nucleus |-> InnerBoundary(img_seg.nucleus,
                               MinOf({img_seg.nucleus[i] : i \in 1..Len(img_seg.nucleus)}))]

\* .astype(np.uint16)
astype_uint16(v) ==
    [cell |-> [i \in 1..Len(v.cell) |-> v.cell[i] % (UINT16_MAX + 1)],
     nucleus |-> [i \in 1..Len(v.nucleus) |-> v.nucleus[i] % (UINT16_MAX + 1)]]

\* np.stack([img_seg, img_boundary], axis=0).astype(np.uint16)
label_tile(img_seg) ==
    [segmentation |-> astype_uint16(img_seg),
     boundary |-> astype_uint16(find_boundaries(img_seg))]

\* ---- the operation ----
\* Values of CODEX_CYTOMETRY_2D_MODEL_PATH and CODEX_DATA_DIR
ModelPaths == { <<"m", "5">>, <<"/", "m", ".", "h", "5">> }
DataDirs == { <<"/", "d">> }

ModelEnvs ==
    {[k \in DOMAIN a \cup DOMAIN b |-> IF k \in DOMAIN a THEN a[k] ELSE b[k]] :
        a \in PartialFns({ENV_CYTOMETRY_2D_MODEL_PATH}, ModelPaths),
        b \in PartialFns({ENV_DATA_DIR}, DataDirs)}

\* (cycle, channel) coordinates config.get_channel_coordinates resolves
Coords == {<<0, 0>>, <<0, 1>>}
NoCoords == <<>>

\* Cytometry.__init__: tile one row high, the coordinates of the nuclei
\* channel, those of the membrane channel (NoCoords when none is named),
\* segmentation_params asking for the masks or not
Cytometry(w, nuc, mem, return_masks) ==
    [tile_width |-> w, input_shape |-> HWC(1, w),
     nuc_channel_coords |-> nuc, mem_channel_coords |-> mem,
     membrane |-> mem # NoCoords,
     return_masks |-> return_masks, cytometer |-> NoEngine]

\* tile[cycle, :, channel]: the stack of a tile at given coordinates
Slice(cycle, channel) == <<cycle, channel>>

\* The arguments of a call of segment()
SegArgs(img_nuc, has_memb, img_memb) ==
    [called |-> TRUE, img_nuc |-> img_nuc, has_memb |-> has_memb, img_memb |-> img_memb]
NoSegArgs == [called |-> FALSE, img_nuc |-> <<>>, has_memb |-> FALSE, img_memb |-> <<>>]

\* Lines 69 to 76 of _run_2d: the membrane stack is cut at the coordinates
\* of the nuclei channel
run_2d_stacks(o) ==
    SegArgs(Slice(o.nuc_channel_coords[1], o.nuc_channel_coords[2]),
            TRUE,
            Slice(o.nuc_channel_coords[1], o.nuc_channel_coords[2]))

NoCall == [op |-> "start", status |-> "ok", at |-> ""]
Ended(o, status, at) == [op |-> o, status |-> status, at |-> at]

\* np.iinfo(np.uint8).max
UINT8_MAX == 255

\* The masks segment() keeps when return_masks is given, taken here as the
\* extent of the cells, and (img_bin[np.newaxis] * 255).astype(np.uint8)
mask_tile(img_seg) ==
    [i \in 1..Len(img_seg.cell) |-> IF img_seg.cell[i] > 0 THEN UINT8_MAX ELSE 0]

Ran(segmented, img_seg, quantified, valid, has_label, img_label, img_bin) ==
    [segmented |-> segmented, img_seg |-> img_seg, quantified |-> quantified,
     valid |-> valid, has_label |-> has_label, img_label |-> img_label,
     img_bin |-> img_bin]
NoRun == Ran(FALSE, NoVolume, FALSE, FALSE, FALSE, NoLabelTile, <<>>)

CytoStart ==
    /\ environ \in ModelEnvs
    /\ cyto \in {Cytometry(w, n, m, r) :
                    w \in TileWidths, n \in Coords, m \in Coords \cup {NoCoords},
                    r \in BOOLEAN}
    /\ sessions = <<>>
    /\ ktf = 0
    /\ cyCall = NoCall
    /\ cyRun = NoRun
    /\ segArgs = NoSegArgs
    /\ modelPath = PathKeyError

\* set_keras_session: KTF.set_session(tf.Session(config=tf_config))
SetKerasSession ==
    /\ sessions' = Append(sessions, "open")
    /\ ktf' = Len(sessions) + 1

\* cytometer.Cytometer2D(self.input_shape, model_path).initialize(): the
\* path is the second positional argument, target_shape.  Building the model
\* and loading the weights are calls into Keras, which return or raise.
MakeCytometer(path) ==
    IF EngineRefused(cyto.input_shape, TRUE, TupleOf(path))
    THEN /\ cyCall' = Ended("initialize", "ValueError", "KerasCytometer2D.__init__")
         /\ UNCHANGED cyto
    ELSE \E keras \in {"returns", "raises"} :
            IF keras = "raises"
            THEN /\ cyCall' = Ended("initialize", "Error", "keras")
                 /\ UNCHANGED cyto
            ELSE /\ cyCall' = Ended("initialize", "ok", "")
                 /\ cyto' = [cyto EXCEPT !.cytometer =
                              EngineInitialize(
                                  KerasCytometer2D(cyto.input_shape, TRUE, TupleOf(path),
                                                   FALSE, <<>>))]

\* Cytometry.initialize
Initialize ==
    /\ Len(sessions) < MaxSessions
    /\ SetKerasSession
    /\ modelPath' = get_model_path(environ)
    /\ IF get_model_path(environ).kind = "KeyError"
       THEN /\ cyCall' = Ended("initialize", "KeyError", "get_model_path")
            /\ UNCHANGED cyto
       ELSE MakeCytometer(get_model_path(environ).path)
    /\ UNCHANGED <<environ, cyRun, segArgs>>

\* A variant that leaves the backend's session as it is
ShutdownLeavesOpen ==
    /\ cyCall' = Ended("shutdown", "ok", "")
    /\ UNCHANGED <<environ, cyto, cyRun, segArgs, modelPath, sessions, ktf>>

\* close_keras_session: KTF.get_session() makes a session when the backend
\* holds none, and the session it returns is closed
CloseKerasSession ==
    IF ktf = 0
    THEN /\ Len(sessions) < MaxSessions
         /\ sessions' = Append(sessions, "closed")
         /\ ktf' = Len(sessions) + 1
    ELSE /\ sessions' = [sessions EXCEPT ![ktf] = "closed"]
         /\ UNCHANGED ktf

\* Cytometry.shutdown
Shutdown ==
    /\ CloseKerasSession
    /\ cyCall' = Ended("shutdown", "ok", "")
    /\ UNCHANGED <<environ, cyto, cyRun, segArgs, modelPath>>

Failed(status, at, run) ==
    /\ cyCall' = Ended("run", status, at)
    /\ cyRun' = run

\* _run_2d from the check of the largest label on
AfterSegment(img_seg, names_match) ==
    IF MaxOf(Values(img_seg)) > UINT16_MAX
    THEN Failed("ValueError", "guard",
                Ran(TRUE, img_seg, FALSE, names_match, FALSE, NoLabelTile, <<>>))
    ELSE IF quantify(names_match, img_seg) # "ok"
    THEN Failed(quantify(names_match, img_seg), "quantify",
                Ran(TRUE, img_seg, TRUE, names_match, FALSE, NoLabelTile, <<>>))
    \* segment() returns None for the masks unless return_masks was given
    ELSE IF ~cyto.return_masks
    THEN Failed("TypeError", "img_bin",
                Ran(TRUE, img_seg, TRUE, names_match, FALSE, NoLabelTile, <<>>))
    ELSE /\ cyCall' = Ended("run", "ok", "")
         /\ cyRun' = Ran(TRUE, img_seg, TRUE, names_match, TRUE, label_tile(img_seg),
                      mask_tile(img_seg))

\* Cytometry._run_2d; the prediction and the watershed inside segment() are
\* calls into Keras and skimage, which return a volume or raise
Run2D ==
    /\ IF ~cyto.cytometer.made
       THEN Failed("AttributeError", "cytometer", NoRun)
       ELSE IF ~cyto.membrane
       THEN Failed("UnboundLocalError", "img_memb", NoRun)
       ELSE \/ Failed("Error", "segment", NoRun)
            \/ \E img_seg \in Volumes(cyto.tile_width), names_match \in BOOLEAN :
                   AfterSegment(img_seg, names_match)
    /\ segArgs' = IF cyto.cytometer.made /\ cyto.membrane
                  THEN run_2d_stacks(cyto) ELSE NoSegArgs
    /\ UNCHANGED <<environ, cyto, sessions, ktf, modelPath>>

\* A run whose inputs quantify accepts and whose masks were asked for
ValidRun ==
    /\ cyRun.valid
    /\ cyto.return_masks
    /\ Regions(cyRun.img_seg.cell) = Regions(cyRun.img_seg.nucleus)

\* C9: once segment() has returned, a largest label above 65535 makes the
\* operation raise ValueError at the guard, before quantify and without a
\* label tile; otherwise the guard stays silent and, on valid inputs, the
\* operation returns a label tile holding the volume's labels unchanged.
LabelGuard16Bit ==
    (cyCall.op = "run" /\ cyRun.segmented)
        => IF MaxOf(Values(cyRun.img_seg)) > UINT16_MAX
           THEN /\ cyCall.status = "ValueError"
                /\ cyCall.at = "guard"
                /\ ~cyRun.quantified
                /\ ~cyRun.has_label
           ELSE /\ cyCall.at # "guard"
                /\ ValidRun => /\ cyCall.status = "ok"
                               /\ cyRun.has_label
                               /\ cyRun.img_label.segmentation = cyRun.img_seg

\* C10: when the model path resolves, initialize() ends with an initialized
\* engine built for the shape (tile_height, tile_width, 1), with the resolved
\* path as its weights and no target shape (a failure inside Keras aside).
InitializeLoadsModelPath ==
    (cyCall.op = "initialize" /\ get_model_path(environ).kind = "ok")
        => \/ cyCall.status = "Error"
           \/ /\ cyCall.status = "ok"
              /\ cyto.cytometer.initialized
              /\ cyto.cytometer.input_shape = cyto.input_shape
              /\ cyto.cytometer.model.input_shape = cyto.input_shape
              /\ cyto.cytometer.model.weights = get_model_path(environ).path
              /\ ~cyto.cytometer.has_target

\* C11: when a membrane channel is named and segment() is called, the
\* membrane stack it gets is the tile's stack at the membrane channel's
\* coordinates (the nucleus stack being the one at the nuclei channel's).
MembraneStackAtMembraneCoords ==
    (cyCall.op = "run" /\ cyto.membrane /\ cyto.cytometer.made)
        => /\ segArgs.called
           /\ segArgs.img_nuc = Slice(cyto.nuc_channel_coords[1], cyto.nuc_channel_coords[2])
           /\ segArgs.has_memb
           /\ segArgs.img_memb = Slice(cyto.mem_channel_coords[1], cyto.mem_channel_coords[2])

\* C12: when no membrane channel is named, a run on an operation that has
\* its engine calls segment() with the nucleus stack and no membrane image,
\* and does not end on the missing membrane stack.
NoMembraneStillSegments ==
    (cyCall.op = "run" /\ ~cyto.membrane /\ cyto.cytometer.made)
        => /\ segArgs.called
           /\ segArgs.img_nuc = Slice(cyto.nuc_channel_coords[1], cyto.nuc_channel_coords[2])
           /\ ~segArgs.has_memb
           /\ cyCall.at # "img_memb"

\* C13: get_model_path gives the value of CODEX_CYTOMETRY_2D_MODEL_PATH
\* whenever it is set, with or without CODEX_DATA_DIR, and the default file
\* under CODEX_DATA_DIR only when it is not.
ModelPathOverrideFirst ==
    cyCall.op = "initialize"
        => IF ENV_CYTOMETRY_2D_MODEL_PATH \in DOMAIN environ
           THEN modelPath = PathOk(environ[ENV_CYTOMETRY_2D_MODEL_PATH])
           ELSE ENV_DATA_DIR \in DOMAIN environ
                    => modelPath = PathOk(Join(environ[ENV_DATA_DIR], DefaultModelFile))

\* C14: whatever segmentation_params asks for, a run whose segmentation
\* fits 16 bits and whose inputs quantify accepts returns a label tile and a
\* mask tile with the planes, height and width of the input tile.
RunKeepsTileShape ==
    (/\ cyCall.op = "run"
     /\ cyRun.segmented
     /\ MaxOf(Values(cyRun.img_seg)) <= UINT16_MAX
     /\ cyRun.valid
     /\ Regions(cyRun.img_seg.cell) = Regions(cyRun.img_seg.nucleus))
        => /\ cyCall.status = "ok"
           /\ cyRun.has_label
           /\ Len(cyRun.img_label.segmentation.cell) = cyto.tile_width
           /\ Len(cyRun.img_label.segmentation.nucleus) = cyto.tile_width
           /\ Len(cyRun.img_label.boundary.cell) = cyto.tile_width
           /\ Len(cyRun.img_bin) = cyto.tile_width

(***************************************************************************)
(* codex/ops/best_focus.py                                                 *)
(***************************************************************************)
\* Most z-planes of a tile
MaxZ == 2

\* Most quality classes of the classifier
MaxClasses == 3

\* Pixel values, and probabilities in halves
PixelVals == {0, 1}
ProbLevels == {0, 1, 2}

RECURSIVE SumTo(_, _)
SumTo(f, n) == IF n < 0 THEN 0 ELSE f[n] + SumTo(f, n - 1)

\* pred.probabilities: n class probabilities that add up to one
ProbVectors(n) ==
    {q \in [0..(n - 1) -> ProbLevels] : SumTo(q, n - 1) = MaxOf(ProbLevels)}

\* Tiles with one cycle, nz planes and two channels of one pixel: a blank
\* tile, and one whose pixels all differ
Tiles(nz) ==
    {[cyc \in {0} |-> [z \in 0..(nz - 1) |-> [ch \in {0, 1} |-> k * (1 + 2 * z + ch)]]] :
        k \in PixelVals}

\* A variant without the reversal
class_weights_ascending(n) == [c \in 0..(n - 1) |-> c]

\* np.arange(self.n_classes)[::-1]
class_weights(n) == [c \in 0..(n - 1) |-> n - 1 - c]

\* np.dot(np.array(scores), weights): one score per plane
dot(probs, w) ==
    [iz \in DOMAIN probs |->
        SumTo([c \in DOMAIN w |-> probs[iz][c] * w[c]], Cardinality(DOMAIN w) - 1)]

\* np.argmax: the first index holding the largest value
argmax(scores) ==
    CHOOSE i \in DOMAIN scores :
        /\ \A j \in DOMAIN scores : scores[j] <= scores[i]
        /\ \A j \in DOMAIN scores : j < i => scores[j] < scores[i]

\* A variant that keeps the first plane
subset_first_z(tile, best_z) == [cyc \in DOMAIN tile |-> [z \in {0} |-> tile[cyc][0]]]

\* tile[:, [best_z], :, :, :]
subset_z(tile, best_z) == [cyc \in DOMAIN tile |-> [z \in {0} |-> tile[cyc][best_z]]]

\* CodexFocalPlaneSelector.__init__; predict is what the classifier built
\* by initialize() answers for each plane of the tile
CodexFocalPlaneSelector(coords, n_classes, predict) ==
    [focus_cycle |-> coords[1], focus_channel |-> coords[2], n_classes |-> n_classes,
     predict |-> predict, mqiest |-> FALSE, sess |-> 0]

NoTile == [cyc \in {} |-> <<>>]
NoFocus == [done |-> FALSE, tile |-> NoTile, best_z |-> 0, scores |-> <<>>, probs |-> <<>>]
Focus(tile, best_z, scores, probs) ==
    [done |-> TRUE, tile |-> tile, best_z |-> best_z, scores |-> scores, probs |-> probs]

PlanesOf(tile) == DOMAIN tile[0]

BfStart ==
    /\ bfTile \in UNION {Tiles(nz) : nz \in 1..MaxZ}
    /\ \E c \in Coords, n \in 2..MaxClasses :
           \E probs \in [PlanesOf(bfTile) -> ProbVectors(n)] :
               bfOp = CodexFocalPlaneSelector(c, n, probs)
    /\ bfCall = NoCall
    /\ bfOut = NoFocus

\* CodexFocalPlaneSelector.initialize: the classifier it builds holds a
\* session of its own, _sess
BfInitialize ==
    /\ Len(sessions) < MaxSessions
    /\ sessions' = Append(sessions, "open")
    /\ bfOp' = [bfOp EXCEPT !.mqiest = TRUE, !.sess = Len(sessions) + 1]
    /\ bfCall' = Ended("initialize", "ok", "")
    /\ UNCHANGED <<bfTile, bfOut, ktf>>

\* CodexFocalPlaneSelector.shutdown
BfShutdown ==
    /\ IF ~bfOp.mqiest
       THEN /\ bfCall' = Ended("shutdown", "AttributeError", "mqiest")
            /\ UNCHANGED sessions
       ELSE /\ bfCall' = Ended("shutdown", "ok", "")
            /\ sessions' = [sessions EXCEPT ![bfOp.sess] = "closed"]
    /\ UNCHANGED <<bfOp, bfTile, bfOut, ktf>>

\* The lines of _run after the predictions
Select(probs) ==
    /\ bfCall' = Ended("run", "ok", "")
    /\ bfOut' = Focus(subset_z(bfTile, argmax(dot(probs, class_weights(bfOp.n_classes)))),
                      argmax(dot(probs, class_weights(bfOp.n_classes))),
                      dot(probs, class_weights(bfOp.n_classes)),
                      probs)

\* CodexFocalPlaneSelector._run
BfRun ==
    /\ IF ~bfOp.mqiest
       THEN /\ bfCall' = Ended("run", "AttributeError", "mqiest")
            /\ bfOut' = NoFocus
       ELSE Select([iz \in PlanesOf(bfTile) |-> bfOp.predict[iz]])
    /\ UNCHANGED <<bfOp, bfTile, sessions, ktf>>

\* The score the selection is about: the sum over the classes c of
\* p_c * (n_classes - 1 - c)
FocusScore(p, n) == SumTo([c \in 0..(n - 1) |-> p[c] * (n - 1 - c)], n - 1)

OneHot(n, k) == [c \in 0..(n - 1) |-> IF c = k THEN MaxOf(ProbLevels) ELSE 0]

\* C15: after a run, every plane's score is the weighted sum of its class
\* probabilities, the chosen plane's score is the largest, and a plane with
\* all probability on class 0 beats one with all of it on the last class.
BestFocusMaximal ==
    bfOut.done
        => /\ DOMAIN bfOut.scores = PlanesOf(bfTile)
           /\ \A z \in PlanesOf(bfTile) :
                  bfOut.scores[z] = FocusScore(bfOp.predict[z], bfOp.n_classes)
           /\ \A z \in PlanesOf(bfTile) : bfOut.scores[z] <= bfOut.scores[bfOut.best_z]
           /\ \A a \in PlanesOf(bfTile), b \in PlanesOf(bfTile) :
                  (/\ bfOp.predict[a] = OneHot(bfOp.n_classes, 0)
                   /\ bfOp.predict[b] = OneHot(bfOp.n_classes, bfOp.n_classes - 1))
                      => /\ bfOut.scores[a] > bfOut.scores[b]
                         /\ bfOut.best_z # b

\* A run over a best plane and a worst plane, in that order or the other
BestOverWorstReached ==
    /\ bfOut.done
    /\ \E a \in PlanesOf(bfTile), b \in PlanesOf(bfTile) :
           /\ bfOp.predict[a] = OneHot(bfOp.n_classes, 0)
           /\ bfOp.predict[b] = OneHot(bfOp.n_classes, bfOp.n_classes - 1)
           /\ bfOut.best_z = a
           /\ a > b

\* What a finished run returned: the input tile cut to the chosen plane
ReturnedSlice ==
    bfOut.done
        => /\ bfOut.best_z \in PlanesOf(bfTile)
           /\ DOMAIN bfOut.tile = DOMAIN bfTile
           /\ \A cyc \in DOMAIN bfTile :
                  /\ Cardinality(DOMAIN bfOut.tile[cyc]) = 1
                  /\ \A z \in DOMAIN bfOut.tile[cyc] :
                         bfOut.tile[cyc][z] = bfTile[cyc][bfOut.best_z]
           /\ Cardinality(DOMAIN bfOut.scores) = Cardinality(PlanesOf(bfTile))

\* C16: the tile returned is the input tile cut to the chosen plane (one
\* plane, every cycle and channel kept with its values, the chosen index
\* within the planes, one score per plane), and a run changes nothing of the
\* input tile.
BestFocusTileIsSlice ==
    /\ []ReturnedSlice
    /\ [][bfCall'.op = "run" => bfTile' = bfTile]_vars

\* A run that chose a plane other than the first of a tile whose pixels differ
LaterPlaneCut ==
    /\ bfOut.done
    /\ bfOut.best_z > 0
    /\ bfTile[0][0] # bfTile[0][bfOut.best_z]
    /\ bfOut.tile[0][0] = bfTile[0][bfOut.best_z]

\* ---- one instance used as initialize(), runs, shutdown() ----
\* Which of the two operations the process uses
CytometryInUse == bfTile = NoTile
Fresh(call) == call.op = "start"
Live(call) == call.op \in {"initialize", "run"}
Over(call) == call.op = "shutdown"

OpenSessions == {i \in 1..Len(sessions) : sessions[i] = "open"}

\* C17: between initialize() and shutdown() of the instance in use exactly
\* one session is open, and none is after shutdown().
OneSessionPerInstance ==
    /\ (Live(cyCall) \/ Live(bfCall)) => Cardinality(OpenSessions) = 1
    /\ Live(bfCall) => OpenSessions = {bfOp.sess}
    /\ Live(cyCall) => OpenSessions = {ktf}
    /\ (Over(cyCall) \/ Over(bfCall)) => OpenSessions = {}

\* A Cytometry instance that was initialized, ran and was shut down
CytometryShutDownAfterRun ==
    /\ Over(cyCall)
    /\ cyto.cytometer.initialized
    /\ cyRun.segmented
    /\ sessions = <<"closed">>

\* C18: in a volume segment() returned, every pixel with a positive nucleus
\* label carries the same label in the cell channel, so every nucleus label
\* is a cell label of the plane.
NucleusLabelsAreCellLabels ==
    cyRun.segmented
        => /\ \A i \in 1..Len(cyRun.img_seg.nucleus) :
                  cyRun.img_seg.nucleus[i] > 0
                      => cyRun.img_seg.nucleus[i] = cyRun.img_seg.cell[i]
           /\ Regions(cyRun.img_seg.nucleus) \subseteq Regions(cyRun.img_seg.cell)

\* A volume with a nucleus under a large label and a cell without nucleus
NucleusInsideCellReached ==
    /\ cyRun.segmented
    /\ \E i \in 1..Len(cyRun.img_seg.cell) :
           cyRun.img_seg.nucleus[i] = UINT16_MAX /\ cyRun.img_seg.cell[i] = UINT16_MAX
    /\ \E i \in 1..Len(cyRun.img_seg.cell) :
           cyRun.img_seg.nucleus[i] = 0 /\ cyRun.img_seg.cell[i] > 0

(***************************************************************************)
(* codex/cytometry/cytometer.py: Cytometer2D.quantify and its calculators  *)
(***************************************************************************)
DEFAULT_CELL_INTENSITY_PREFIX == "ci:"
DEFAULT_NUCL_INTENSITY_PREFIX == "ni:"
DEFAULT_CELL_GRAPH_PREFIX == "cg:"

\* A column name: its prefix and the name after it
Column(prefix, name) == <<prefix, name>>
Prefixed(prefix, names) == [i \in 1..Len(names) |-> Column(prefix, names[i])]

\* BasicCellFeatures.get_feature_names
BasicNames ==
    Prefixed("", <<"id", "x", "y", "z",
                   "cell_size", "cell_diameter", "cell_perimeter", "cell_solidity",
                   "nucleus_size", "nucleus_diameter", "nucleus_perimeter",
                   "nucleus_solidity">>)

\* '{:03d}'.format(i) for i in range(n_channels)
NumberedNames(n) == SubSeq(<<"000", "001", "002">>, 1, n)

\* IntensityFeatures.get_feature_names
IntensityNames(prefix, n_channels, has_names, channel_names) ==
    Prefixed(prefix, IF has_names THEN channel_names ELSE NumberedNames(n_channels))

\* GraphFeatures.get_feature_names
GraphNames(prefix) ==
    Prefixed(prefix, <<"n_neighbors", "neighbors", "adj_neighbor_pct", "adj_bg_pct">>)

\* feature_names of quantify: the names of the calculators chosen, in the
\* order basic, cell intensity, nucleus intensity, graph
feature_names(a) ==
    BasicNames
    \o (IF a.include_cell_intensity
        THEN IntensityNames(DEFAULT_CELL_INTENSITY_PREFIX, a.nch, a.has_names, a.channel_names)
        ELSE <<>>)
    \o (IF a.include_nucleus_intensity
        THEN IntensityNames(DEFAULT_NUCL_INTENSITY_PREFIX, a.nch, a.has_names, a.channel_names)
        ELSE <<>>)
    \o (IF a.include_cell_graph THEN GraphNames(DEFAULT_CELL_GRAPH_PREFIX) ELSE <<>>)

\* channel_names is not None and nch != len(channel_names)
names_match(a) == ~a.has_names \/ a.nch = Len(a.channel_names)

Table(status, columns, rows) == [status |-> status, columns |-> columns, rows |-> rows]
NoTable == Table("none", <<>>, <<>>)

\* pd.DataFrame(feature_values, columns=feature_names): quantify gets there
\* only when no plane holds an object, with no row
quantify_table(a) ==
    IF quantify(names_match(a), a.img_seg) = "ok"
    THEN Table("ok", feature_names(a), <<>>)
    ELSE Table(quantify(names_match(a), a.img_seg), <<>>, <<>>)

\* The arguments of quantify: the channels of the tile, the channel names
\* (None or a list), the volume and the three flags
QuantifyArgs(nch, has_names, channel_names, img_seg, ci, ni, cg) ==
    [nch |-> nch, has_names |-> has_names, channel_names |-> channel_names,
     img_seg |-> img_seg, include_cell_intensity |-> ci,
     include_nucleus_intensity |-> ni, include_cell_graph |-> cg]

\* Any pair of label planes, whether segment() could give it or not
AnyVolumes(w) ==
    {[cell |-> c, nucleus |-> n] : c \in [1..w -> LabelVals], n \in [1..w -> LabelVals]}

QuantStart ==
    /\ \E nch \in {1, 2}, names \in {<<>>, <<"a", "b">>}, w \in TileWidths,
          ci \in BOOLEAN, ni \in BOOLEAN, cg \in BOOLEAN :
           \E img_seg \in AnyVolumes(w) :
               qIn = QuantifyArgs(nch, names # <<>>, names, img_seg, ci, ni, cg)
    /\ qOut = NoTable

Quantify ==
    /\ qOut' = quantify_table(qIn)
    /\ UNCHANGED qIn

\* C19: for a volume whose cell and nucleus labels agree, and whatever the
\* three flags, quantify returns a table with one row per object, the basic
\* columns followed by those of the calculators chosen, and rows as long as
\* the columns.
QuantifyReturnsTable ==
    (/\ qOut # NoTable
     /\ names_match(qIn)
     /\ Regions(qIn.img_seg.cell) = Regions(qIn.img_seg.nucleus))
        => /\ qOut.status = "ok"
           /\ Len(qOut.rows) = Cardinality(Regions(qIn.img_seg.cell))
           /\ qOut.columns = feature_names(qIn)
           /\ SubSeq(qOut.columns, 1, Len(BasicNames)) = BasicNames
           /\ \A r \in 1..Len(qOut.rows) : Len(qOut.rows[r]) = Len(qOut.columns)

\* C20: when the positive cell labels and the positive nucleus labels of
\* the plane differ, in number or only in value, quantify raises ValueError
\* and returns no table.
QuantifyRefusesUnpaired ==
    (/\ qOut # NoTable
     /\ names_match(qIn)
     /\ Regions(qIn.img_seg.cell) # Regions(qIn.img_seg.nucleus))
        => /\ qOut.status = "ValueError"
           /\ qOut.columns = <<>>

(***************************************************************************)
(* codex/cytometry/cytometer.py: GraphFeatures.get_feature_values          *)
(***************************************************************************)
\* Largest number of bordering pixels on an edge of the adjacency graph
MaxCount == 2

\* Node ids an object can border: the background 0 and two other objects
NeighborIds == {0, 1, 2}

\* An edge of graph.adj[label]: the neighbour and the edge's 'count'
Edge(nid, count) == [nid |-> nid, count |-> count]

\* graph.adj[props.cell.label], in the order the dict gives its keys: every
\* neighbour once, every count at least 1
Adjacencies ==
    {a \in UNION {[1..n -> {Edge(i, c) : i \in NeighborIds, c \in 1..MaxCount}]
                     : n \in 0..Cardinality(NeighborIds)} :
        \A i, j \in 1..Len(a) : i # j => a[i].nid # a[j].nid}

\* [nid for nid in nbrs.keys() if nid != 0], with each one's count
RECURSIVE non_bg(_)
non_bg(nbrs) ==
    IF nbrs = <<>> THEN <<>>
    ELSE IF nbrs[1].nid # 0 THEN <<nbrs[1]>> \o non_bg(Tail(nbrs))
    ELSE non_bg(Tail(nbrs))

\* nbrs[0]['count'] if 0 in nbrs else 0
bg_count(nbrs) ==
    IF \E i \in 1..Len(nbrs) : nbrs[i].nid = 0
    THEN nbrs[CHOOSE i \in 1..Len(nbrs) : nbrs[i].nid = 0].count
    ELSE 0

\* nbwts.sum()
RECURSIVE counts_sum(_)
counts_sum(edges) ==
    IF edges = <<>> THEN 0 ELSE edges[1].count + counts_sum(Tail(edges))

\* A total that leaves the background out
weight_sum_neighbors(bgwt, edges) == counts_sum(edges)

\* wtsum = bgwt + nbwts.sum()
weight_sum(bgwt, edges) == bgwt + counts_sum(edges)

\* ','.join(strs)
RECURSIVE join_comma(_)
join_comma(strs) ==
    IF Len(strs) = 0 THEN <<>>
    ELSE IF Len(strs) = 1 THEN strs[1]
    ELSE strs[1] \o <<",">> \o join_comma(Tail(strs))

\* A quotient a / b of two counts, kept exact
Quotient(a, b) == [num |-> a, den |-> b]

GraphRow(status, values) == [called |-> TRUE, status |-> status, values |-> values]
NoGraphRow == [called |-> FALSE, status |-> "", values |-> <<>>]

\* GraphFeatures.get_feature_values
graph_feature_values(nbrs) ==
    IF ~(weight_sum(bg_count(nbrs), non_bg(nbrs)) > 0)
    THEN GraphRow("AssertionError", <<>>)
    ELSE GraphRow("ok",
            <<Len(non_bg(nbrs)),
              join_comma([i \in 1..Len(non_bg(nbrs)) |-> repr_int(non_bg(nbrs)[i].nid)]),
              [i \in 1..Len(non_bg(nbrs)) |->
                  Quotient(non_bg(nbrs)[i].count,
                           weight_sum(bg_count(nbrs), non_bg(nbrs)))],
              Quotient(bg_count(nbrs), weight_sum(bg_count(nbrs), non_bg(nbrs)))>>)

GraphStart ==
    /\ gfIn \in Adjacencies
    /\ gfOut = NoGraphRow

GetFeatureValues ==
    /\ ~gfOut.called
    /\ gfOut' = graph_feature_values(gfIn)
    /\ UNCHANGED gfIn

\* The neighbours of the object that are not the background, and the total
\* of the counts on its edges
OtherObjects == {i \in 1..Len(gfIn) : gfIn[i].nid # 0}
RECURSIVE TotalCount(_)
TotalCount(S) ==
    IF S = {} THEN 0
    ELSE gfIn[CHOOSE i \in S : TRUE].count + TotalCount(S \ {CHOOSE i \in S : TRUE})

\* The numerators of a list of quotients, added up
RECURSIVE Numerators(_)
Numerators(qs) == IF qs = <<>> THEN 0 ELSE qs[1].num + Numerators(Tail(qs))

\* C21: for an object whose background count plus neighbour counts is
\* positive, the row gives the number of non-background neighbours, their
\* ids without 0, one fraction per neighbour and the background fraction,
\* all over the same total, adding up to 1; an object whose total is zero
\* gets an AssertionError and no row.
GraphFractionsSumToOne ==
    gfOut.called =>
        IF TotalCount(DOMAIN gfIn) > 0
        THEN /\ gfOut.status = "ok"
             /\ gfOut.values[1] = Cardinality(OtherObjects)
             /\ gfOut.values[2] =
                    join_comma([k \in 1..Cardinality(OtherObjects) |->
                                   repr_int(gfIn[SortedInts(OtherObjects)[k]].nid)])
             /\ \A c \in 1..Len(gfOut.values[2]) : gfOut.values[2][c] # "0"
             /\ Len(gfOut.values[3]) = Cardinality(OtherObjects)
             /\ \A k \in 1..Len(gfOut.values[3]) :
                    gfOut.values[3][k].den = gfOut.values[4].den
             /\ gfOut.values[4].den > 0
             /\ Numerators(gfOut.values[3]) + gfOut.values[4].num = gfOut.values[4].den
        ELSE gfOut.status = "AssertionError"

\* Reached: a row for an object that borders the background and another
\* object
RowWithBackgroundAndNeighbor ==
    /\ gfOut.called
    /\ gfOut.status = "ok"
    /\ gfOut.values[1] >= 1
    /\ gfOut.values[4].num > 0

(***************************************************************************)
(* codex/ops/cytometry.py: Cytometry.save                                  *)
(***************************************************************************)
\* Most rows in the stats table handed to save
MaxRows == 2

\* (region_index, tile_index, tx, ty)
TileIndices == {<<r, i, x, y>> : r \in {0, 1}, i \in {2}, x \in {3}, y \in {3, 4}}

OutputDirs == { <<"/", "o">> }

\* codex_io.get_cytometry_segmentation_path, get_cytometry_mask_path and
\* get_cytometry_stats_path: a path for each kind of file and each
\* (region_index, tx, ty)
CytometryPath(kind, region_index, tx, ty) ==
    [kind |-> kind, region_index |-> region_index, tx |-> tx, ty |-> ty]

\* osp.join(output_dir, path)
InDir(output_dir, path) == [dir |-> output_dir, path |-> path]

\* A file written: where, and what
File(path, content) == [path |-> path, content |-> content]

\* The stats tables quantify gives: the columns of the calculators chosen,
\* and a row per object, every value told apart by its row and column
StatsTables ==
    {Table("ok", feature_names(QuantifyArgs(1, FALSE, <<>>, NoVolume, ci, ni, cg)),
           [r \in 1..n |->
               [c \in 1..Len(feature_names(QuantifyArgs(1, FALSE, <<>>, NoVolume, ci, ni, cg)))
                   |-> <<"value", r, c>>]]) :
        ci \in BOOLEAN, ni \in BOOLEAN, cg \in BOOLEAN, n \in 0..MaxRows}

\* (img_label, img_bin, stats) as _run_2d returns them
SaveData ==
    {[img_label |-> label_tile(v), img_bin |-> mask_tile(v), stats |-> t] :
        v \in {[cell |-> <<0>>, nucleus |-> <<0>>], [cell |-> <<1>>, nucleus |-> <<1>>]},
        t \in StatsTables}

SaveArgs(tile_indices, output_dir, data) ==
    [tile_indices |-> tile_indices, output_dir |-> output_dir, data |-> data]

\* DataFrame.insert(0, name, value): a new first column holding the value
\* on every row; ValueError when the table has a column of that name
insert_first(stats, name, value) ==
    IF stats.status # "ok" THEN stats
    ELSE IF \E c \in 1..Len(stats.columns) : stats.columns[c] = Column("", name)
    THEN Table("ValueError", stats.columns, stats.rows)
    ELSE Table("ok", <<Column("", name)>> \o stats.columns,
               [r \in 1..Len(stats.rows) |-> <<value>> \o stats.rows[r]])

\* The four inserts made the other way round
with_tile_indices_reversed(stats, region_index, tile_index, tx, ty) ==
    insert_first(insert_first(insert_first(insert_first(stats,
        "region_index", region_index), "tile_index", tile_index), "tile_x", tx),
        "tile_y", ty)

\* Lines 126 to 129 of save
with_tile_indices(stats, region_index, tile_index, tx, ty) ==
    insert_first(insert_first(insert_first(insert_first(stats,
        "tile_y", ty), "tile_x", tx), "tile_index", tile_index),
        "region_index", region_index)

Saved(status, written, returned, stats) ==
    [called |-> TRUE, status |-> status, written |-> written, returned |-> returned,
     stats |-> stats]
NotSaved == [called |-> FALSE, status |-> "", written |-> <<>>, returned |-> <<>>,
             stats |-> NoTable]

\* save once the two tiles are written: the stats table, changed in place,
\* is written and the three paths are returned
save_stats(a, tiles, stats) ==
    IF stats.status # "ok" THEN Saved(stats.status, tiles, <<>>, stats)
    ELSE Saved("ok",
               Append(tiles,
                      File(InDir(a.output_dir,
                                 CytometryPath("stats", a.tile_indices[1],
                                               a.tile_indices[3], a.tile_indices[4])),
                           stats)),
               <<CytometryPath("segmentation", a.tile_indices[1],
                               a.tile_indices[3], a.tile_indices[4]),
                 CytometryPath("mask", a.tile_indices[1],
                               a.tile_indices[3], a.tile_indices[4]),
                 CytometryPath("stats", a.tile_indices[1],
                               a.tile_indices[3], a.tile_indices[4])>>,
               stats)

\* Cytometry.save
save(a) ==
    save_stats(a,
        <<File(InDir(a.output_dir,
                     CytometryPath("segmentation", a.tile_indices[1],
                                   a.tile_indices[3], a.tile_indices[4])),
               a.data.img_label),
          File(InDir(a.output_dir,
                     CytometryPath("mask", a.tile_indices[1],
                                   a.tile_indices[3], a.tile_indices[4])),
               a.data.img_bin)>>,
        with_tile_indices(a.data.stats, a.tile_indices[1], a.tile_indices[2],
                          a.tile_indices[3], a.tile_indices[4]))

SaveStart ==
    /\ svIn \in {SaveArgs(i, d, data) :
                    i \in TileIndices, d \in OutputDirs, data \in SaveData}
    /\ svOut = NotSaved

Save ==
    /\ ~svOut.called
    /\ svOut' = save(svIn)
    /\ UNCHANGED svIn

\* The columns save puts before the feature columns
TileColumns ==
    <<Column("", "region_index"), Column("", "tile_index"),
      Column("", "tile_x"), Column("", "tile_y")>>

MaxPixels == 2

\* An image: its dtype and its pixels, flattened
Image(dtype, pixels) == [dtype |-> dtype, pixels |-> pixels]

DTypes == {"uint8", "uint16", "int32", "float64", "bool"}

\* Pixel values of each dtype: the ends of its range, and for 16 bits the
\* values around the first and the last step of the 8-bit scale
PixelsOf(dtype) ==
    IF dtype = "uint8" THEN {0, 1, UINT8_MAX}
    ELSE IF dtype = "uint16"
    THEN {0, 1, UINT16_MAX \div UINT8_MAX - 1, UINT16_MAX \div UINT8_MAX,
          UINT16_MAX - 1, UINT16_MAX}
    ELSE {0, 1}

Images ==
    UNION {{Image(d, p) : p \in UNION {[1..n -> PixelsOf(d)] : n \in 1..MaxPixels}}
              : d \in DTypes}

\* np.clip(v, lo, hi)
clip(v, lo, hi) == IF v < lo THEN lo ELSE IF v > hi THEN hi ELSE v

\* A conversion that keeps the low byte, as .astype(np.uint8) alone would
rescale_wrapping(v, imin, imax, omin, omax) == v % (omax + 1)

\* exposure.rescale_intensity on one pixel, in_range = (imin, imax) and
\* out_range = (omin, omax): clip, (v - imin) / float(imax - imin), times
\* (omax - omin), plus omin, cast back to an integer dtype (truncation).
\* For 0..65535 to 0..255 the double-precision result truncates to the
\* integer quotient for every 16-bit value.
rescale_intensity(v, imin, imax, omin, omax) ==
    ((clip(v, imin, imax) - imin) * (omax - omin)) \div (imax - imin) + omin

Returned(img) == [called |-> TRUE, status |-> "ok", img |-> img]
Refused(e) == [called |-> TRUE, status |-> e, img |-> Image("", <<>>)]
NotCalled == [called |-> FALSE, status |-> "", img |-> Image("", <<>>)]

\* _to_uint8(img, name)
to_uint8(img) ==
    IF img.dtype # "uint8" /\ img.dtype # "uint16" THEN Refused("ValueError")
    ELSE IF img.dtype = "uint16"
    THEN Returned(Image("uint8",
             [i \in 1..Len(img.pixels) |->
                 rescale_intensity(img.pixels[i], 0, UINT16_MAX, 0, UINT8_MAX)
                     % (UINT8_MAX + 1)]))
    ELSE Returned(img)

ToUint8Start ==
    /\ u8In \in Images
    /\ u8Out = NotCalled

\* A call of _to_uint8 on the image
ToUint8 ==
    /\ ~u8Out.called
    /\ u8Out' = to_uint8(u8In)
    /\ UNCHANGED u8In

\* A call of _to_uint8 on the image an earlier call returned
ToUint8Again ==
    /\ u8Out.called
    /\ u8Out.status = "ok"
    /\ u8In' = u8Out.img
    /\ u8Out' = to_uint8(u8Out.img)

\* C22: _to_uint8 returns an 8-bit image as it is; for a 16-bit image it
\* returns an 8-bit image of the same size in which pixels keep their
\* order (a <= b in the input gives a <= b in the output); for any other
\* dtype it raises ValueError.
ToUint8Normalizes ==
    u8Out.called =>
        /\ u8In.dtype = "uint8" => u8Out = Returned(u8In)
        /\ u8In.dtype = "uint16" =>
               /\ u8Out.status = "ok"
               /\ u8Out.img.dtype = "uint8"
               /\ Len(u8Out.img.pixels) = Len(u8In.pixels)
               /\ \A i \in 1..Len(u8In.pixels) :
                      /\ u8Out.img.pixels[i] \in 0..UINT8_MAX
                      /\ \A j \in 1..Len(u8In.pixels) :
                             u8In.pixels[i] <= u8In.pixels[j]
                                 => u8Out.img.pixels[i] <= u8Out.img.pixels[j]
        /\ u8In.dtype \notin {"uint8", "uint16"} => u8Out.status = "ValueError"

\* Reached: a 16-bit image whose pixels differ came back as an 8-bit image
\* whose pixels differ
SixteenBitRescaled ==
    /\ u8Out.called
    /\ u8In.dtype = "uint16"
    /\ u8Out.status = "ok"
    /\ \E i, j \in 1..Len(u8In.pixels) :
           /\ u8In.pixels[i] < u8In.pixels[j]
           /\ u8Out.img.pixels[i] < u8Out.img.pixels[j]

(***************************************************************************)
(* codex/cytometry/cytometer.py: a Cytometer2D engine used directly        *)
(***************************************************************************)
\* Most calls made on the engine
MaxCalls == 3

\* Cytometer2D(input_shape[, target_shape[, weights_path]]) for tiles one
\* row high
Engines ==
    {KerasCytometer2D(HWC(1, w), t, IF t THEN <<Dim(1), Dim(1)>> ELSE <<>>,
                      p, IF p THEN <<"w">> ELSE <<>>) :
        w \in TileWidths, t \in BOOLEAN, p \in BOOLEAN}

\* The image given to segment(): dtype, number of axes, width, and the
\* batch_size given with it
SegmentInputs ==
    [dtype : {"uint8", "uint16", "float64"}, ndim : {2, 3, 4},
     width : TileWidths, batch_size : {0, 1}]

\* How initialize() ended, with the engine it left: whether _get_model
\* returned (built) and load_weights returned (loaded)
InitEnd(e, status, at, built, loaded) ==
    [eng |-> e, status |-> status, at |-> at, built |-> built, loaded |-> loaded]

\* KerasCytometer2D.initialize, line by line: building the model and
\* fetching and loading the weights are calls into Keras, which return or
\* raise; self.model is assigned before the weights are loaded and
\* self.initialized after
initialize_ends(e) ==
    {InitEnd(e, "Error", "_get_model", FALSE, FALSE),
     InitEnd([e EXCEPT !.model = [EngineInitialize(e).model EXCEPT !.weights = <<>>]],
             "Error", "load_weights", TRUE, FALSE),
     InitEnd(EngineInitialize(e), "ok", "", TRUE, TRUE)}

SegEnd(status, at, inferred) == [status |-> status, at |-> at, inferred |-> inferred]

\* segment() after line 318, and predict() inside it: the checks made before
\* self.model.predict, then the inference and the watershed, which are calls
\* into Keras and skimage
segment_ends(e, in) ==
    IF to_uint8(Image(in.dtype, <<>>)).status # "ok"
    THEN {SegEnd("ValueError", "_to_uint8", FALSE)}
    ELSE IF in.ndim \notin {2, 3} THEN {SegEnd("ValueError", "ndim", FALSE)}
    ELSE IF HWC(1, in.width) # e.input_shape THEN {SegEnd("ValueError", "shape", FALSE)}
    ELSE IF in.batch_size < 1 THEN {SegEnd("ValueError", "batch_size", FALSE)}
    ELSE (IF e.resize THEN {SegEnd("Error", "_resize", FALSE)} ELSE {})
         \cup {SegEnd("Error", "model.predict", TRUE),
               SegEnd("Error", "watershed", TRUE),
               SegEnd("ok", "", TRUE)}

\* A call on the engine: which method, how it ended, whether the engine was
\* initialized when it began, whether it entered initialize(), and what it
\* reached: the model built, the weights loaded, an inference run
EngCall(op, status, at, was_initialized, initializing, built, loaded, inferred) ==
    [op |-> op, status |-> status, at |-> at, was_initialized |-> was_initialized,
     initializing |-> initializing, built |-> built, loaded |-> loaded,
     inferred |-> inferred]

EngStart ==
    /\ eng \in Engines
    /\ engCalls = <<>>

\* An explicit initialize()
EngInitialize ==
    /\ Len(engCalls) < MaxCalls
    /\ \E r \in initialize_ends(eng) :
           /\ eng' = r.eng
           /\ engCalls' = Append(engCalls,
                  EngCall("initialize", r.status, r.at, eng.initialized, TRUE,
                          r.built, r.loaded, FALSE))

\* segment() on an engine that is initialized when line 318 is passed
SegmentInitialized(e, initializing) ==
    \E in \in SegmentInputs : \E t \in segment_ends(e, in) :
        /\ eng' = e
        /\ engCalls' = Append(engCalls,
               EngCall("segment", t.status, t.at, eng.initialized, initializing,
                       initializing, initializing, t.inferred))

\* Cytometer2D.segment
EngSegment ==
    /\ Len(engCalls) < MaxCalls
    /\ IF eng.initialized
       THEN SegmentInitialized(eng, FALSE)
       ELSE \E r \in initialize_ends(eng) :
               IF r.status = "ok"
               THEN SegmentInitialized(r.eng, TRUE)
               ELSE /\ eng' = r.eng
                    /\ engCalls' = Append(engCalls,
                           EngCall("segment", r.status, r.at, FALSE, TRUE,
                                   r.built, r.loaded, FALSE))

SegmentCalls == {k \in 1..Len(engCalls) : engCalls[k].op = "segment"}

\* Every inference was made with the model built and the weights loaded
InitializedBeforeInference ==
    \A k \in 1..Len(engCalls) :
        engCalls[k].inferred =>
            \E j \in 1..k : engCalls[j].built /\ engCalls[j].loaded

Instances == {1, 2}

\* One operation of the two: its fields, its last call, and the session its
\* initialize() created (0 before)
Instance(o, call, session) == [cyto |-> o, call |-> call, session |-> session]

\* The ways initialize() of operation o can end once its session is set, as
\* in Initialize: the call's end and the cytometer the operation then holds
InitializeEnds(o, E) ==
    IF get_model_path(E).kind = "KeyError"
    THEN {<<Ended("initialize", "KeyError", "get_model_path"), o.cytometer>>}
    ELSE IF EngineRefused(o.input_shape, TRUE, TupleOf(get_model_path(E).path))
    THEN {<<Ended("initialize", "ValueError", "KerasCytometer2D.__init__"), o.cytometer>>}
    ELSE {<<Ended("initialize", "Error", "keras"), o.cytometer>>,
          <<Ended("initialize", "ok", ""),
            EngineInitialize(KerasCytometer2D(o.input_shape, TRUE,
                                              TupleOf(get_model_path(E).path),
                                              FALSE, <<>>))>>}

PairStart ==
    /\ environ \in ModelEnvs
    /\ pair \in [Instances ->
                   {Instance(Cytometry(w, <<0, 0>>, NoCoords, FALSE), NoCall, 0) :
                       w \in TileWidths}]
    /\ sessions = <<>>
    /\ ktf = 0

\* initialize() of operation i, not yet initialized
PairInitialize(i) ==
    /\ Fresh(pair[i].call)
    /\ SetKerasSession
    /\ \E end \in InitializeEnds(pair[i].cyto, environ) :
           pair' = [pair EXCEPT
                       ![i] = Instance([pair[i].cyto EXCEPT !.cytometer = end[2]],
                                       end[1], Len(sessions) + 1)]
    /\ UNCHANGED <<environ, cyOpVars>>

\* shutdown() of operation i after its initialize()
PairShutdown(i) ==
    /\ Live(pair[i].call)
    /\ CloseKerasSession
    /\ pair' = [pair EXCEPT ![i].call = Ended("shutdown", "ok", "")]
    /\ UNCHANGED <<environ, cyOpVars>>

\* C26: with two Cytometry operations in one process, each initialized
\* before it is shut down, the shutdown() of an operation has closed the
\* session its own initialize() created, and the session of the other
\* operation stays open until that one's own shutdown().
ShutdownClosesOwnSession ==
    \A i \in DOMAIN pair :
        /\ Over(pair[i].call) => sessions[pair[i].session] = "closed"
        /\ Live(pair[i].call) => sessions[pair[i].session] = "open"

(***************************************************************************)
(* Specifications: one per component, the other components standing still  *)
(***************************************************************************)
RegistryIdle ==
    /\ envCall = [op |-> "start", env |-> EmptyEnv]
    /\ linksSet = [kind |-> "never", val |-> EmptyMap]
    /\ symResult = NoResult

ArgIdle ==
    /\ arg = NoneArg
    /\ argCall = [op |-> "start", zero_based |-> FALSE]
    /\ argRes = NoneRes

RunIdle ==
    /\ configs = <<>>
    /\ kwargs = EmptyArgs
    /\ runIdx = 1
    /\ runStatus = "returned"
    /\ passed = <<>>
    /\ invoked = <<>>

EnvIdle == environ = EmptyEnv /\ RegistryIdle

CyIdle ==
    /\ cyto = Cytometry(1, <<0, 0>>, NoCoords, FALSE)
    /\ sessions = <<>>
    /\ ktf = 0
    /\ cyCall = NoCall
    /\ cyRun = NoRun
    /\ segArgs = NoSegArgs
    /\ modelPath = PathKeyError

BfIdle ==
    /\ bfOp = CodexFocalPlaneSelector(<<0, 0>>, 2, <<>>)
    /\ bfTile = NoTile
    /\ bfCall = NoCall
    /\ bfOut = NoFocus

QIdle ==
    /\ qIn = QuantifyArgs(1, FALSE, <<>>, NoVolume, FALSE, FALSE, FALSE)
    /\ qOut = NoTable

PairIdle == pair = [i \in {} |-> NoCall]

EngIdle == eng = NoEngine /\ engCalls = <<>>

U8Idle == u8In = Image("uint8", <<>>) /\ u8Out = NotCalled

GfIdle == gfIn = <<>> /\ gfOut = NoGraphRow

SvIdle == svIn = <<>> /\ svOut = NotSaved

laterVars == <<pairVars, engVars, u8Vars, gfVars, svVars>>
LaterIdle == PairIdle /\ EngIdle /\ U8Idle /\ GfIdle /\ SvIdle

EnvInit == EnvStart /\ ArgIdle /\ RunIdle /\ CyIdle /\ BfIdle /\ QIdle /\ LaterIdle
EnvNext ==
    \/ RegisterEnvironment /\ UNCHANGED <<argVars, runVars, cyVars, bfVars, qVars, laterVars>>
    \/ SetRawIndexSymlinks /\ UNCHANGED <<argVars, runVars, cyVars, bfVars, qVars, laterVars>>
    \/ GetRawIndexSymlinks /\ UNCHANGED <<argVars, runVars, cyVars, bfVars, qVars, laterVars>>
EnvSpec == EnvInit /\ [][EnvNext]_vars

ArgInit == ArgStart /\ EnvIdle /\ RunIdle /\ CyIdle /\ BfIdle /\ QIdle /\ LaterIdle
ArgNext ==
    \/ ResolveIntListArg /\ UNCHANGED <<envVars, runVars, cyVars, bfVars, qVars, laterVars>>
    \/ ResolveIndexListArg /\ UNCHANGED <<envVars, runVars, cyVars, bfVars, qVars, laterVars>>
ArgSpec == ArgInit /\ [][ArgNext]_vars

RunInit == RunStart /\ EnvIdle /\ ArgIdle /\ CyIdle /\ BfIdle /\ QIdle /\ LaterIdle
RunNext ==
    \/ RunAllBlock /\ UNCHANGED <<envVars, argVars, cyVars, bfVars, qVars, laterVars>>
    \/ RunAllReturn /\ UNCHANGED <<envVars, argVars, cyVars, bfVars, qVars, laterVars>>
RunSpec == RunInit /\ [][RunNext]_vars

registryVars == <<envCall, linksSet, symResult>>
CytoInit == CytoStart /\ RegistryIdle /\ ArgIdle /\ RunIdle /\ BfIdle /\ QIdle /\ LaterIdle
CytoNext ==
    \/ Initialize /\ UNCHANGED <<registryVars, argVars, runVars, bfVars, qVars, laterVars>>
    \/ Shutdown /\ UNCHANGED <<registryVars, argVars, runVars, bfVars, qVars, laterVars>>
    \/ Run2D /\ UNCHANGED <<registryVars, argVars, runVars, bfVars, qVars, laterVars>>
CytoSpec == CytoInit /\ [][CytoNext]_vars

BfInit == BfStart /\ EnvIdle /\ ArgIdle /\ RunIdle /\ CyIdle /\ QIdle /\ LaterIdle
BfNext ==
    \/ BfInitialize /\ UNCHANGED <<envVars, argVars, runVars, cyOpVars, qVars, laterVars>>
    \/ BfShutdown /\ UNCHANGED <<envVars, argVars, runVars, cyOpVars, qVars, laterVars>>
    \/ BfRun /\ UNCHANGED <<envVars, argVars, runVars, cyOpVars, qVars, laterVars>>
BfSpec == BfInit /\ [][BfNext]_vars

\* One operation instance, a Cytometry or a CodexFocalPlaneSelector, used as
\* initialize(), any number of runs, shutdown()
LifeInit ==
    /\ \/ CytoStart /\ BfIdle
       \/ BfStart /\ CyIdle /\ environ = EmptyEnv
    /\ RegistryIdle /\ ArgIdle /\ RunIdle /\ QIdle /\ LaterIdle
LifeNext ==
    \/ CytometryInUse /\ Fresh(cyCall) /\ Initialize
          /\ UNCHANGED <<registryVars, argVars, runVars, bfVars, qVars, laterVars>>
    \/ CytometryInUse /\ Live(cyCall) /\ Run2D
          /\ UNCHANGED <<registryVars, argVars, runVars, bfVars, qVars, laterVars>>
    \/ CytometryInUse /\ Live(cyCall) /\ Shutdown
          /\ UNCHANGED <<registryVars, argVars, runVars, bfVars, qVars, laterVars>>
    \/ ~CytometryInUse /\ Fresh(bfCall) /\ BfInitialize
          /\ UNCHANGED <<envVars, argVars, runVars, cyOpVars, qVars, laterVars>>
    \/ ~CytometryInUse /\ Live(bfCall) /\ BfRun
          /\ UNCHANGED <<envVars, argVars, runVars, cyOpVars, qVars, laterVars>>
    \/ ~CytometryInUse /\ Live(bfCall) /\ BfShutdown
          /\ UNCHANGED <<envVars, argVars, runVars, cyOpVars, qVars, laterVars>>
LifeSpec == LifeInit /\ [][LifeNext]_vars

QuantInit == QuantStart /\ EnvIdle /\ ArgIdle /\ RunIdle /\ CyIdle /\ BfIdle /\ LaterIdle
QuantNext ==
    \/ Quantify /\ UNCHANGED <<envVars, argVars, runVars, cyVars, bfVars, laterVars>>
QuantSpec == QuantInit /\ [][QuantNext]_vars

\* Two Cytometry operations whose initialize() and shutdown() interleave
PairInit ==
    /\ PairStart
    /\ cyto = Cytometry(1, <<0, 0>>, NoCoords, FALSE) /\ cyCall = NoCall
    /\ cyRun = NoRun /\ segArgs = NoSegArgs /\ modelPath = PathKeyError
    /\ RegistryIdle /\ ArgIdle /\ RunIdle /\ BfIdle /\ QIdle
    /\ EngIdle /\ U8Idle /\ GfIdle /\ SvIdle
PairNext ==
    \/ \E i \in Instances : PairInitialize(i)
          /\ UNCHANGED <<registryVars, argVars, runVars, bfVars, qVars,
                         engVars, u8Vars, gfVars, svVars>>
    \/ \E i \in Instances : PairShutdown(i)
          /\ UNCHANGED <<registryVars, argVars, runVars, bfVars, qVars,
                         engVars, u8Vars, gfVars, svVars>>
PairSpec == PairInit /\ [][PairNext]_vars

\* _to_uint8 on an image, and again on what it returned
U8Init ==
    /\ ToUint8Start
    /\ EnvIdle /\ ArgIdle /\ RunIdle /\ CyIdle /\ BfIdle /\ QIdle
    /\ PairIdle /\ EngIdle /\ GfIdle /\ SvIdle
U8Next ==
    \/ ToUint8 /\ UNCHANGED <<envVars, argVars, runVars, cyVars, bfVars, qVars,
                               pairVars, engVars, gfVars, svVars>>
    \/ ToUint8Again /\ UNCHANGED <<envVars, argVars, runVars, cyVars, bfVars, qVars,
                                    pairVars, engVars, gfVars, svVars>>
U8Spec == U8Init /\ [][U8Next]_vars

\* An engine on which initialize() and segment() are called
EngInit ==
    /\ EngStart
    /\ EnvIdle /\ ArgIdle /\ RunIdle /\ CyIdle /\ BfIdle /\ QIdle
    /\ PairIdle /\ U8Idle /\ GfIdle /\ SvIdle
EngNext ==
    \/ EngInitialize /\ UNCHANGED <<envVars, argVars, runVars, cyVars, bfVars, qVars,
                                     pairVars, u8Vars, gfVars, svVars>>
    \/ EngSegment /\ UNCHANGED <<envVars, argVars, runVars, cyVars, bfVars, qVars,
                                  pairVars, u8Vars, gfVars, svVars>>
EngSpec == EngInit /\ [][EngNext]_vars

\* GraphFeatures.get_feature_values on the neighbours of an object
GraphInit ==
    /\ GraphStart
    /\ EnvIdle /\ ArgIdle /\ RunIdle /\ CyIdle /\ BfIdle /\ QIdle
    /\ PairIdle /\ EngIdle /\ U8Idle /\ SvIdle
GraphNext ==
    \/ GetFeatureValues /\ UNCHANGED <<envVars, argVars, runVars, cyVars, bfVars, qVars,
                                        pairVars, engVars, u8Vars, svVars>>
GraphSpec == GraphInit /\ [][GraphNext]_vars

\* Cytometry.save on what a run returned
SaveInit ==
    /\ SaveStart
    /\ EnvIdle /\ ArgIdle /\ RunIdle /\ CyIdle /\ BfIdle /\ QIdle
    /\ PairIdle /\ EngIdle /\ U8Idle /\ GfIdle
SaveNext ==
    \/ Save /\ UNCHANGED <<envVars, argVars, runVars, cyVars, bfVars, qVars,
                            pairVars, engVars, u8Vars, gfVars>>
SaveSpec == SaveInit /\ [][SaveNext]_vars

Init == EnvStart /\ ArgStart /\ RunStart /\ CyIdle /\ BfStart /\ QuantStart /\ LaterIdle
Next ==
    \/ EnvNext \/ ArgNext \/ RunNext \/ CytoNext \/ BfNext \/ QuantNext
    \/ PairNext \/ U8Next \/ EngNext \/ GraphNext \/ SaveNext
Spec == Init /\ [][Next]_vars

=============================================================================
